---- MODULE Spec2Model ----
(***************************************************************************)
(* State-machine model of the game engines of the games suite.             *)
(*                                                                         *)
(* Part 1: the canonical wrap-around snake engine, createSnakeEngine of    *)
(* src/unnamed/part_004 lines 1-188 (the variant that takes initialLength  *)
(* and startDir).  The engine's state record and construction options are  *)
(* the variables; changeDirection, step and reset are the actions, and     *)
(* placeFood is modelled where the engine calls it (at construction, in    *)
(* reset and in step).  Math.random is a hidden input: every value it can  *)
(* return is a nondeterministic choice.                                    *)
(***************************************************************************)
EXTENDS Integers, Sequences, FiniteSets, TLC

(***************************************************************************)
(* Bounds of the model.                                                    *)
(***************************************************************************)
\* largest number of grid columns explored
MaxCols == 3
\* largest number of grid rows explored
MaxRows == 2
\* largest requested initial snake length explored (whole cells)
MaxLen == 3
\* ticks is counted up to this cap: a step that would count further is not explored
MaxTicks == 2

(***************************************************************************)
(* JavaScript values.  Numbers are integers, plus two values that are not  *)
(* numbers of the grid: NaN (the result of arithmetic on undefined) and    *)
(* Undefined (a property an object does not have).  They are encoded as    *)
(* integers far outside every range the model uses, and every operator     *)
(* below treats them as JavaScript does.                                   *)
(***************************************************************************)
NaN == -1000
Undefined == -2000

IsNumber(v) == v # NaN /\ v # Undefined

\* a + b
Plus(a, b) == IF IsNumber(a) /\ IsNumber(b) THEN a + b ELSE NaN

\* a === b on numbers and undefined: NaN equals nothing, not even itself
StrictEq(a, b) == a # NaN /\ b # NaN /\ a = b

\* a % n of JavaScript: the result takes the sign of the dividend
JsRem(a, n) ==
  IF ~IsNumber(a) THEN NaN
  ELSE IF a >= 0 THEN a % n ELSE -((-a) % n)

\* null, and a present object v, as values of a nullable field
Null == <<>>
Obj(v) == <<v>>

Vec(vx, vy) == [x |-> vx, y |-> vy]

(***************************************************************************)
(* DIRS: the key-to-direction table.  DIRS is an object literal, so a      *)
(* lookup DIRS[k] also finds the properties every object inherits from     *)
(* Object.prototype; their values are functions or objects whose x and y   *)
(* are undefined.                                                          *)
(***************************************************************************)
OwnKeys == {"ArrowUp", "ArrowDown", "ArrowLeft", "ArrowRight", "w", "s", "a", "d"}

DIRS ==
  [k \in OwnKeys |->
     CASE k \in {"ArrowUp", "w"}    -> Vec(0, -1)
       [] k \in {"ArrowDown", "s"}  -> Vec(0, 1)
       [] k \in {"ArrowLeft", "a"}  -> Vec(-1, 0)
       [] k \in {"ArrowRight", "d"} -> Vec(1, 0)]

InheritedKeys == {"constructor", "toString", "valueOf", "hasOwnProperty"}
InheritedValue == Vec(Undefined, Undefined)

\* the keys the model passes to changeDirection
Keys == {"ArrowUp", "ArrowDown", "ArrowLeft", "D", "Enter", "ARROWUP", "constructor"}

\* String.prototype.toLowerCase on the keys of the model
ToLowerCase(k) ==
  CASE k = "W" -> "w" [] k = "S" -> "s" [] k = "A" -> "a" [] k = "D" -> "d"
    [] k = "ArrowUp" -> "arrowup" [] k = "ArrowDown" -> "arrowdown"
    [] k = "ArrowLeft" -> "arrowleft" [] k = "ArrowRight" -> "arrowright"
    [] k = "ARROWUP" -> "arrowup" [] k = "Enter" -> "enter"
    [] k = "toString" -> "tostring" [] k = "CONSTRUCTOR" -> "constructor"
    [] k = "R" -> "r"
    [] OTHER -> k

\* DIRS[k]: Null when the lookup yields undefined
Get(k) ==
  IF k \in OwnKeys THEN Obj(DIRS[k])
  ELSE IF k \in InheritedKeys THEN Obj(InheritedValue)
  ELSE Null

\* DIRS[k] || DIRS[k.toLowerCase()]
LookupDir(k) == IF Get(k) # Null THEN Get(k) ELSE Get(ToLowerCase(k))

UnitVectors == {Vec(1, 0), Vec(-1, 0), Vec(0, 1), Vec(0, -1)}

(***************************************************************************)
(* The engine.                                                             *)
(***************************************************************************)
VARIABLES
  cols, rows,        \* options: grid size
  initialLength,     \* option: requested initial length, in half cells
  startDir,          \* option: starting direction
  snake,             \* state.snake: sequence of cells, head first
  dir,               \* state.dir
  pendingDir,        \* state.pendingDir: Null or Obj(v)
  food,              \* state.food
  score, ticks,      \* state.score, state.ticks
  gameOver,          \* state.gameOver
  lastOp             \* the operation called last (history variable)

options == <<cols, rows, initialLength, startDir>>
state == <<snake, dir, pendingDir, food, score, ticks, gameOver>>
vars == <<options, state, lastOp>>

\* The racing engine (Part 3): its start option, the fields of its state
\* record, and its input record.
VARIABLES
  width, height,     \* options, also state.width and state.height
  start,             \* option: the start pose
  pos, vel,          \* state.pos, state.vel
  angle,             \* state.angle
  laps, timeMs,      \* state.laps, state.timeMs
  lastCrossedDir,    \* state.lastCrossedDir
  input,             \* input: the four control flags
  canvasLaps         \* stateRef.current.laps of CarRacerCanvas, whose step
                     \* is run on the same pose, flags and frame times

racerState ==
  <<width, height, start, pos, vel, angle, laps, timeMs, lastCrossedDir, input,
    canvasLaps>>
racerVars == <<racerState, lastOp>>

\* The bubble shooter (Part 4): the refs and React state of the component;
\* its score and gameOver are held in the variables of those names above.
VARIABLES
  COLS, ROWS,        \* grid extents, computed from the width and height props
  grid,              \* gridRef.current
  shot,              \* shooterRef.current.shot: Null or Obj(colour)
  pendingShot,       \* pendingShotRef.current
  currentBubble,     \* currentBubbleRef.current.color
  nextBubble,        \* nextBubbleRef.current.color
  mouse,             \* mouseRef.current: <<x, y>>
  shooterAngle,      \* shooterRef.current.angle
  running,           \* React state running
  rowShiftTimer,     \* rowShiftTimerRef.current
  lastTs,            \* lastTsRef.current: 0, or 1 for a timestamp
  placed             \* the cell the last placement wrote (history variable)

bubbleState ==
  <<COLS, ROWS, grid, shot, pendingShot, currentBubble, nextBubble, mouse,
    shooterAngle, running, rowShiftTimer, lastTs, placed>>
bubbleVars == <<bubbleState, score, gameOver, lastOp>>

\* Car Escape (Part 5): the refs of the CarEscapeGame component; its running,
\* score and gameOver (the values the last setRunning, setScore and
\* setGameOver gave them) are held in the variables of those names above.
VARIABLES
  road,              \* the width and height props, px
  frameMs,           \* ms between two animation frames (the display's rate)
  car,               \* carRef.current
  obstacles,         \* obstaclesRef.current: sequence, oldest first
  spawnTimer,        \* spawnTimerRef.current
  steer,             \* inputRef.current
  lastTime,          \* lastTimeRef.current: 0, or 1 for a timestamp
  bound              \* running and gameOver as the last render had them:
                     \* what the loop and the key listener it bound read,
                     \* and what the buttons it drew show

escapeState ==
  <<road, frameMs, car, obstacles, spawnTimer, steer, lastTime, bound>>

\* The placeFood loop of the snake engines (Part 6), one sample at a time; the
\* grid, the snake and the food are held in the variables of those names above.
VARIABLES
  engine,            \* which engine's placeFood runs
  tries,             \* the local tries
  foodPc             \* "loop" inside the do-while, "done" after it

foodLoop == <<engine, tries, foodPc>>

\* The flight of the bubble shooter's projectile (Part 7).
VARIABLES
  shotPos,           \* shooterRef.current.shot.x and .y
  shotVel,           \* shooterRef.current.shot.vx and .vy
  shotsFired,        \* the number of clicks made (history variable)
  shifts,            \* the number of row shifts made (history variable)
  bounces            \* the wall bounces of the last shot launched (history variable)

flightState == <<shotPos, shotVel, shotsFired, shifts, bounces>>

\* every variable of the module
allVars == <<vars, racerState, bubbleState, escapeState, foodLoop, flightState>>

\* A specification runs one engine; the variables of the engines it does not
\* run hold Null throughout.
NoRacer ==
  /\ width = Null /\ height = Null
  /\ start = Null /\ pos = Null /\ vel = Null /\ angle = Null
  /\ laps = Null /\ timeMs = Null /\ lastCrossedDir = Null /\ input = Null
  /\ canvasLaps = Null
NoEscape ==
  /\ road = Null /\ frameMs = Null /\ car = Null /\ obstacles = Null
  /\ spawnTimer = Null /\ steer = Null /\ lastTime = Null /\ bound = Null
NoFoodLoop == engine = Null /\ tries = Null /\ foodPc = Null
NoFlight ==
  /\ shotPos = Null /\ shotVel = Null /\ shotsFired = Null /\ shifts = Null
  /\ bounces = Null
NoBubble ==
  /\ COLS = Null /\ ROWS = Null /\ grid = Null /\ shot = Null
  /\ pendingShot = Null /\ currentBubble = Null /\ nextBubble = Null
  /\ mouse = Null /\ shooterAngle = Null
  /\ running = Null /\ rowShiftTimer = Null /\ lastTs = Null /\ placed = Null

\* requested initial lengths, in half cells, whole and fractional in turn:
\* 0, 1.5, 2, 3.5, 4, ...
InitialLengths == {2 * n + (n % 2) : n \in 0..MaxLen}

\* Math.floor of a length given in half cells
Floor(h) == h \div 2

\* mutant of EffectiveLength: the requested length is rounded up
EffectiveLengthRoundedUp(h) == IF (h + 1) \div 2 > 1 THEN (h + 1) \div 2 ELSE 1

\* Math.max(1, Math.floor(initialLength))
EffectiveLength(h) == IF Floor(h) > 1 THEN Floor(h) ELSE 1

\* mutant of Wrap: the remainder alone, n % size
WrapRemainderOnly(n, size) == JsRem(n, size)

\* ((n % size) + size) % size
Wrap(n, size) == JsRem(Plus(JsRem(n, size), size), size)

Cells(c, r) == {Vec(cx, cy) : cx \in 0..(c - 1), cy \in 0..(r - 1)}

\* mutant of InitialSegment: the segment is not wrapped onto the grid
InitialSegmentUnwrapped(c, r, sd, i) ==
  Vec(c \div 2 - sd.x * i, r \div 2 - sd.y * i)

\* the i-th segment pushed by buildInitialSnake (i counted from 0)
InitialSegment(c, r, sd, i) ==
  LET back == Vec(-sd.x, -sd.y)
      midX == c \div 2
      midY == r \div 2
  IN Vec(Wrap(midX + back.x * i, c), Wrap(midY + back.y * i, r))

buildInitialSnake(c, r, sd, length) ==
  [i \in 1..length |-> InitialSegment(c, r, sd, i - 1)]

\* seg.x === x && seg.y === y
SameCell(seg, c) == StrictEq(seg.x, c.x) /\ StrictEq(seg.y, c.y)

\* state.snake.some((seg) => seg.x === x && seg.y === y)
OnSnake(s, c) == \E i \in 1..Len(s) : SameCell(s[i], c)

(***************************************************************************)
(* placeFood: the cells state.food can be set to.  The loop samples cells  *)
(* until one is off the snake, and leaves after the 2001st sample whatever *)
(* that sample is.  exhausted = the first 2000 samples all fell on the     *)
(* snake, which needs a snake segment on the grid.                         *)
(***************************************************************************)
placeFood(s, c, r) ==
  {f \in Cells(c, r) :
     \E exhausted \in BOOLEAN :
        IF exhausted THEN \E g \in Cells(c, r) : OnSnake(s, g)
        ELSE ~OnSnake(s, f)}

\* mutant of IsReversal: the difference is tested, not the sum
IsReversalOfSame(d, n) == StrictEq(Plus(d.x, -n.x), 0) /\ StrictEq(Plus(d.y, -n.y), 0)

\* state.dir.x + next.x === 0 && state.dir.y + next.y === 0
IsReversal(d, n) == StrictEq(Plus(d.x, n.x), 0) /\ StrictEq(Plus(d.y, n.y), 0)

Init ==
  /\ cols \in 1..MaxCols
  /\ rows \in 1..MaxRows
  /\ initialLength \in InitialLengths
  /\ startDir \in UnitVectors
  /\ snake = buildInitialSnake(cols, rows, startDir, EffectiveLength(initialLength))
  /\ dir = startDir
  /\ pendingDir = Null
  /\ score = 0
  /\ ticks = 0
  /\ gameOver = FALSE
  /\ food \in placeFood(snake, cols, rows)
  /\ lastOp = "create"
  /\ NoRacer /\ NoBubble /\ NoEscape /\ NoFoodLoop /\ NoFlight

\* changeDirection(key)
changeDirection(key) ==
  /\ lastOp' = "changeDirection"
  /\ UNCHANGED <<options, snake, dir, food, score, ticks, gameOver>>
  /\ LET v == LookupDir(key) IN
       IF v = Null THEN UNCHANGED pendingDir
       ELSE IF IsReversal(dir, v[1]) THEN UNCHANGED pendingDir
       ELSE pendingDir' = v

\* mutant of reset: the buffered direction survives the reset
resetKeepsPending ==
  /\ lastOp' = "reset"
  /\ snake' = buildInitialSnake(cols, rows, startDir, EffectiveLength(initialLength))
  /\ dir' = startDir
  /\ score' = 0
  /\ ticks' = 0
  /\ gameOver' = FALSE
  /\ food' \in placeFood(snake', cols, rows)
  /\ UNCHANGED <<options, pendingDir>>

\* reset()
reset ==
  /\ lastOp' = "reset"
  /\ snake' = buildInitialSnake(cols, rows, startDir, EffectiveLength(initialLength))
  /\ dir' = startDir
  /\ pendingDir' = Null
  /\ score' = 0
  /\ ticks' = 0
  /\ gameOver' = FALSE
  /\ food' \in placeFood(snake', cols, rows)
  /\ UNCHANGED options

\* the direction step moves in: the pending direction unless it is null or a reversal
DirAfterPending(d, p) ==
  IF p # Null /\ ~IsReversal(d, p[1]) THEN p[1] ELSE d

\* the wrapped next head cell
NextHead(head, d, c, r) ==
  Vec(Wrap(Plus(head.x, d.x), c), Wrap(Plus(head.y, d.y), r))

\* mutant of HitsBody: the tail, which the move would vacate, is not compared
HitsBodyButTail(s, c) == \E i \in 2..(Len(s) - 1) : SameCell(s[i], c)

\* the self-collision loop: segments 1..length-1 of the code, 2..Len here
HitsBody(s, c) == \E i \in 2..Len(s) : SameCell(s[i], c)

\* state.food && state.food.x === nx && state.food.y === ny
EatsFood(f, c) == SameCell(f, c)

\* mutant of Grown: the tail is popped on the eating tick too
GrownAndPopped(s, c) == <<c>> \o SubSeq(s, 1, Len(s) - 1)

\* snake.unshift(newHead) without pop
Grown(s, c) == <<c>> \o s

\* mutant of Moved: the segment behind the head is removed, not the tail
MovedDropsNeck(s, c) == <<c>> \o Tail(s)

\* snake.unshift(newHead); snake.pop()
Moved(s, c) == <<c>> \o SubSeq(s, 1, Len(s) - 1)

\* mutant of StepAlive: a move that does not eat leaves ticks alone
StepAliveWithoutTick ==
  LET d == DirAfterPending(dir, pendingDir)
      nh == NextHead(snake[1], d, cols, rows)
  IN /\ dir' = d
     /\ pendingDir' = Null
     /\ IF HitsBody(snake, nh)
          THEN /\ gameOver' = TRUE
               /\ UNCHANGED <<snake, food, score, ticks>>
        ELSE IF EatsFood(food, nh)
          THEN /\ ticks < MaxTicks
               /\ snake' = Grown(snake, nh)
               /\ score' = score + 1
               /\ food' \in placeFood(snake', cols, rows)
               /\ ticks' = ticks + 1
               /\ UNCHANGED gameOver
        ELSE /\ ticks < MaxTicks
             /\ snake' = Moved(snake, nh)
             /\ UNCHANGED <<food, score, gameOver, ticks>>

\* step() past its game-over check
StepAlive ==
  LET d == DirAfterPending(dir, pendingDir)
      nh == NextHead(snake[1], d, cols, rows)
  IN /\ dir' = d
     /\ pendingDir' = Null
     /\ IF HitsBody(snake, nh)
          THEN /\ gameOver' = TRUE
               /\ UNCHANGED <<snake, food, score, ticks>>
        ELSE IF EatsFood(food, nh)
          THEN /\ ticks < MaxTicks
               /\ snake' = Grown(snake, nh)
               /\ score' = score + 1
               /\ food' \in placeFood(snake', cols, rows)
               /\ ticks' = ticks + 1
               /\ UNCHANGED gameOver
        ELSE /\ ticks < MaxTicks
             /\ snake' = Moved(snake, nh)
             /\ ticks' = ticks + 1
             /\ UNCHANGED <<food, score, gameOver>>

\* mutant of step: the game-over check is missing
StepWithoutGameOverCheck ==
  /\ lastOp' = "step"
  /\ UNCHANGED options
  /\ StepAlive

\* step()
step ==
  /\ lastOp' = "step"
  /\ UNCHANGED options
  /\ IF gameOver THEN UNCHANGED state ELSE StepAlive

\* placeFood() called by the client of the engine: only state.food changes
callPlaceFood ==
  /\ lastOp' = "placeFood"
  /\ food' \in placeFood(snake, cols, rows)
  /\ UNCHANGED <<options, snake, dir, pendingDir, score, ticks, gameOver>>

Next ==
  \/ (\E key \in Keys : changeDirection(key)) /\ UNCHANGED <<racerState, bubbleState, escapeState, foodLoop, flightState>>
  \/ step /\ UNCHANGED <<racerState, bubbleState, escapeState, foodLoop, flightState>>
  \/ reset /\ UNCHANGED <<racerState, bubbleState, escapeState, foodLoop, flightState>>
  \/ callPlaceFood /\ UNCHANGED <<racerState, bubbleState, escapeState, foodLoop, flightState>>

Spec == Init /\ [][Next]_allVars

(***************************************************************************)
(* Properties of the wrap-around snake engine.  They are stated with plain *)
(* integer arithmetic (the mathematical modulus %) and plain equality of   *)
(* cells, not with the operators that model the code.                      *)
(***************************************************************************)
OnGrid(c) == c.x \in 0..(cols - 1) /\ c.y \in 0..(rows - 1)

\* s has no two segments in the same cell
NoOverlap(s) == \A i, j \in 1..Len(s) : i # j => s[i] # s[j]

\* the cell one step from h in direction d, wrapped onto the grid
Toroidal(h, d) == Vec((h.x + d.x) % cols, (h.y + d.y) % rows)

\* the transition is a step() call made while the game is on, from a head on
\* the grid, in unit direction dir' (the direction that step moves in)
LiveStep ==
  /\ lastOp' = "step"
  /\ ~gameOver
  /\ dir' \in UnitVectors
  /\ OnGrid(snake[1])

\* the cell that such a step computes as the next head
Target == Toroidal(snake[1], dir')

\* the step leaves the grid over an edge
OffEdge == ~OnGrid(Vec(snake[1].x + dir'.x, snake[1].y + dir'.y))

\* the next head cell is a non-head segment of the pre-move body
IntoBody == \E i \in 2..Len(snake) : snake[i] = Target

\* C1, as stated (and only for a snake that has no two segments in one
\* cell): a step off an edge puts the head on the opposite edge,
\* x' = (x+dx) mod cols and y' = (y+dy) mod rows, and gameOver remains false.
C1_WrapKeepsPlaying ==
  [][(LiveStep /\ OffEdge /\ NoOverlap(snake)) =>
       (snake'[1] = Target /\ ~gameOver')]_vars

\* C1, amended: a step off an edge whose wrapped cell is not a non-head
\* segment of the pre-move body puts the head on the opposite edge and
\* gameOver remains false.
C1_WrapOntoFreeCell ==
  [][(LiveStep /\ OffEdge /\ ~IntoBody) => (snake'[1] = Target /\ ~gameOver')]_vars

\* C1 witness: the last call was a step that moved the head over a left or
\* right edge of a grid at least 2 wide: the old head snake[2] and the new
\* head are on opposite edges.
C1_Witness ==
  /\ lastOp = "step" /\ ~gameOver /\ ticks >= 1
  /\ cols >= 2 /\ Len(snake) >= 2
  /\ dir \in UnitVectors /\ dir.x # 0
  /\ OnGrid(snake[2])
  /\ snake[2].x + dir.x \notin 0..(cols - 1)
  /\ snake[1] = Toroidal(snake[2], dir)

\* C2: when the wrapped next head cell is a non-head segment of the pre-move
\* body (the tail included), step sets gameOver and leaves the snake, its
\* length, score, ticks and food unchanged.
C2_SelfCollision ==
  [][(LiveStep /\ IntoBody) =>
       (gameOver' /\ snake' = snake /\ Len(snake') = Len(snake)
        /\ score' = score /\ ticks' = ticks /\ food' = food)]_vars

\* C2 witness: the game was ended by a step into the tail cell of a snake of
\* at least 3 segments, which still lie where they were.
C2_Witness ==
  /\ lastOp = "step" /\ gameOver
  /\ Len(snake) >= 3 /\ NoOverlap(snake)
  /\ dir \in UnitVectors /\ OnGrid(snake[1])
  /\ snake[Len(snake)] = Toroidal(snake[1], dir)

\* C3: when the next head cell is the food cell and not a body cell, after
\* step the snake is one longer (the tail is kept), score is one higher and
\* gameOver is false.
C3_Growth ==
  [][(LiveStep /\ food = Target /\ ~IntoBody) =>
       (/\ Len(snake') = Len(snake) + 1
        /\ snake'[Len(snake')] = snake[Len(snake)]
        /\ score' = score + 1
        /\ ~gameOver')]_vars

\* C3 witness: the last call was a step that moved, and every step that
\* moved since the last reset ate (score = ticks).
C3_Witness ==
  /\ lastOp = "step" /\ ~gameOver
  /\ score >= 1 /\ score = ticks
  /\ NoOverlap(snake) /\ \A i \in 1..Len(snake) : OnGrid(snake[i])
  /\ Len(snake) = EffectiveLength(initialLength) + score

\* C4, as stated: in every reachable state the food does not lie on the
\* snake.
C4_FoodOffSnake == \A i \in 1..Len(snake) : snake[i] # food

\* C5: once gameOver is true a step call leaves the whole state unchanged.
C5_StepAfterGameOver ==
  [][(lastOp' = "step" /\ gameOver) => UNCHANGED state]_vars

\* C5 witness: step was called after the game had ended: a direction that
\* was buffered after the fatal step is still pending after the call.
C5_Witness == lastOp = "step" /\ gameOver /\ pendingDir # Null

\* a key names a direction: it, or its lower-case form, is one of the eight
\* names of the DIRS table
Directional(k) == k \in OwnKeys \/ ToLowerCase(k) \in OwnKeys

\* the direction a directional key names
KeyVector(k) == IF k \in OwnKeys THEN DIRS[k] ELSE DIRS[ToLowerCase(k)]

\* e is the exact reverse of the unit direction d
ExactReverse(d, e) == d \in UnitVectors /\ e = Vec(-d.x, -d.y)

\* C6, as stated: changeDirection with a key that names no direction, or
\* that names the exact reverse of dir, changes no state at all; with any
\* other key it sets pendingDir to the named direction and changes nothing
\* else (dir included).
C6_ChangeDirectionRejection ==
  [][\A k \in Keys :
       changeDirection(k) =>
         IF ~Directional(k) \/ ExactReverse(dir, KeyVector(k))
           THEN UNCHANGED state
           ELSE /\ pendingDir' = Obj(KeyVector(k))
                /\ UNCHANGED <<snake, dir, food, score, ticks, gameOver>>]_vars

\* C7: the direction in effect after a step is never the exact reverse of
\* the direction in effect before it, whatever changeDirection calls were
\* made in between.
C7_NoReversal ==
  [][lastOp' = "step" => ~ExactReverse(dir, dir')]_vars

\* C7 witness: a step that moved the snake has turned it away from the
\* starting direction.
C7_Witness ==
  /\ lastOp = "step" /\ ~gameOver /\ ticks >= 1
  /\ cols >= 2 /\ rows >= 2 /\ NoOverlap(snake)
  /\ dir \in UnitVectors /\ dir # startDir

\* C8, as stated: the snake built at construction and by reset trails the
\* head backward along the starting direction, each segment in the cell
\* behind the one before it, and no two segments share a cell.
C8_SpawnNoOverlap ==
  lastOp \in {"create", "reset"} =>
    /\ \A i \in 2..Len(snake) :
         snake[i] = Toroidal(snake[i - 1], Vec(-startDir.x, -startDir.y))
    /\ NoOverlap(snake)

\* the requested snake is no longer than the grid along the start direction
SpawnFits ==
  EffectiveLength(initialLength) <= (IF startDir.x # 0 THEN cols ELSE rows)

\* C9, as stated (and only for engines whose spawned snake fits the grid):
\* the snake has at least one segment, and no two segments share a cell
\* unless the game is over.
C9_BodyInvariant ==
  SpawnFits =>
    /\ Len(snake) >= 1
    /\ ~gameOver => NoOverlap(snake)

\* C10, as stated: every snake segment and the food cell lie on the grid,
\* 0 <= x < cols and 0 <= y < rows.
C10_InBounds ==
  /\ \A i \in 1..Len(snake) : OnGrid(snake[i])
  /\ OnGrid(food)

\* C11, as stated: step and changeDirection never lower score or ticks and
\* reset puts both at 0; a step that moves the snake adds exactly 1 to
\* ticks, the step that ends the game and every step after the end leave
\* ticks alone; score never exceeds ticks.
C11_Counters ==
  [][/\ lastOp' \in {"step", "changeDirection"} =>
          score' >= score /\ ticks' >= ticks
     /\ lastOp' = "reset" => score' = 0 /\ ticks' = 0
     /\ lastOp' = "step" /\ ~gameOver' => ticks' = ticks + 1
     /\ lastOp' = "step" /\ gameOver' => ticks' = ticks
     /\ score <= ticks /\ score' <= ticks']_vars

\* C11 witness: the step that ended a game in which the snake had moved and
\* eaten.
C11_Witness ==
  lastOp = "step" /\ gameOver /\ score >= 1 /\ ticks >= 1 /\ SpawnFits

\* the snake a freshly constructed engine starts with: floor(initialLength)
\* segments, at least one, from the grid centre backward along startDir
FreshSnake(s) ==
  /\ Len(s) = (IF initialLength \div 2 >= 1 THEN initialLength \div 2 ELSE 1)
  /\ s[1] = Vec(cols \div 2, rows \div 2)
  /\ \A i \in 2..Len(s) :
       s[i] = Toroidal(s[i - 1], Vec(-startDir.x, -startDir.y))

\* C12, as stated: reset leaves the state a freshly constructed engine has,
\* up to the food cell: the snake re-seeded, dir the starting direction,
\* pendingDir null, score and ticks 0, gameOver false, and a food cell placed.
C12_ResetIsFresh ==
  [][lastOp' = "reset" =>
       /\ FreshSnake(snake')
       /\ dir' = startDir
       /\ pendingDir' = Null
       /\ score' = 0 /\ ticks' = 0
       /\ gameOver' = FALSE
       /\ OnGrid(food')
       /\ UNCHANGED options]_vars

\* C12 witness: a reset has re-seeded a snake of several segments.
C12_Witness ==
  /\ lastOp = "reset" /\ Len(snake) >= 2 /\ SpawnFits
  /\ ticks = 0 /\ ~gameOver /\ pendingDir = Null

\* C30: a step that neither collides nor eats keeps the length, puts the
\* wrapped next cell at segment 0 and the old segment i-1 at every segment
\* i >= 1 (so the old tail cell is given up), and leaves score and food as
\* they are; the shift holds also of a step whose direction is no unit
\* vector, told by its outcome (game still on, score unchanged)
C30_OrdinaryMove ==
  [][/\ (LiveStep /\ ~IntoBody /\ food # Target) =>
          (/\ ~gameOver'
           /\ Len(snake') = Len(snake)
           /\ snake'[1] = Target
           /\ \A i \in 2..Len(snake) : snake'[i] = snake[i - 1]
           /\ score' = score /\ food' = food)
     /\ (lastOp' = "step" /\ ~gameOver /\ ~gameOver' /\ score' = score) =>
          (/\ Len(snake') = Len(snake)
           /\ \A i \in 2..Len(snake) : snake'[i] = snake[i - 1]
           /\ food' = food)]_vars

\* the last call was a step, every step since the last reset was an
\* ordinary move, and the snake of three is where its head has been
C30_Witness ==
  /\ lastOp = "step" /\ ~gameOver
  /\ ticks >= 2 /\ score = 0
  /\ Len(snake) = 3 /\ NoOverlap(snake)
  /\ dir \in UnitVectors
  /\ \A i \in 1..3 : OnGrid(snake[i])
  /\ snake[1] = Toroidal(snake[2], dir)

\* C31: in every state reachable through changeDirection, step and reset the
\* snake has max(1, floor(initialLength)) + score segments (initialLength is
\* held in half cells, so its floor is the integer half).
C31_LengthAccounting ==
  Len(snake) = (IF initialLength \div 2 >= 1 THEN initialLength \div 2 ELSE 1) + score

\* C31 witness: a snake requested with a fractional length has eaten on two
\* steps, and a direction has been buffered since.
C31_Witness ==
  /\ lastOp = "changeDirection" /\ ~gameOver
  /\ initialLength % 2 = 1
  /\ score = 2
  /\ Len(snake) = initialLength \div 2 + 2

\* C32, as stated: in every reachable state pendingDir is null or one of the
\* four unit vectors, and never the exact reverse of dir; pendingDir is null
\* right after every step taken while the game is on; and the reversal guard
\* inside step never rejects a buffered direction (the step adopts it).
C32_PendingDirection ==
  [][/\ pendingDir' = Null \/ pendingDir'[1] \in UnitVectors
     /\ pendingDir' # Null => ~ExactReverse(dir', pendingDir'[1])
     /\ (lastOp' = "step" /\ ~gameOver) => pendingDir' = Null
     /\ (lastOp' = "step" /\ ~gameOver /\ pendingDir # Null) =>
          dir' = pendingDir[1]]_vars

\* the transition is the first step() call after construction or reset, with
\* no changeDirection call in between, of an engine with the default start
\* direction on a grid at least 2 wide
FirstStep ==
  /\ lastOp \in {"create", "reset"} /\ lastOp' = "step"
  /\ startDir = Vec(1, 0)
  /\ cols >= 2

\* C33: the first step after spawn (default start direction, cols >= 2, no
\* direction input) ends the game if and only if max(1, floor(initialLength))
\* >= cols; for a shorter snake it moves the head one cell forward (wrapped)
\* and gameOver stays false.
C33_FirstMove ==
  [][FirstStep =>
       \A length \in {IF initialLength \div 2 >= 1 THEN initialLength \div 2 ELSE 1} :
         /\ gameOver' <=> length >= cols
         /\ length < cols =>
              /\ snake'[1] = Vec((snake[1].x + 1) % cols, snake[1].y)
              /\ ~gameOver']_vars

\* C33 witness: a snake as long as the 3-wide grid, spawned heading right, has
\* been stopped by a step before it ever moved.
C33_Witness ==
  /\ lastOp = "step" /\ gameOver /\ ticks = 0 /\ pendingDir = Null
  /\ startDir = Vec(1, 0) /\ dir = startDir
  /\ cols = 3 /\ Len(snake) = 3
  /\ snake[1] = Vec(cols \div 2, rows \div 2)

(***************************************************************************)
(* Part 2: the wall-death snake engine, createSnakeEngine of               *)
(* src/frontend_games_ui/src/games/snake/snakeEngine.js.  Its state record *)
(* has the fields of the canonical engine's, so it is held in the same     *)
(* variables; it takes no initialLength and no startDir (both are Null     *)
(* here): the snake starts as one segment at the grid centre, heading      *)
(* right.  Its DIRS table, key lookup and reversal test (lines 8-17 and    *)
(* 40-47) are those of the canonical engine, and are the same operators.   *)
(***************************************************************************)
\* a < b and a >= b of JavaScript: false when either side is NaN
Less(a, b) == IsNumber(a) /\ IsNumber(b) /\ a < b
AtLeast(a, b) == IsNumber(a) /\ IsNumber(b) /\ a >= b

\* the direction every game of this engine starts in
WallStartDir == Vec(1, 0)

\* [{ x: midX, y: midY }]
WallInitialSnake(c, r) == <<Vec(c \div 2, r \div 2)>>

\* placeFood: the loop samples cells until one is off the snake, and leaves
\* after the 1001st sample whatever that sample is
WallPlaceFood(s, c, r) ==
  {f \in Cells(c, r) :
     \E exhausted \in BOOLEAN :
        IF exhausted THEN \E g \in Cells(c, r) : OnSnake(s, g)
        ELSE ~OnSnake(s, f)}

WallInit ==
  /\ cols \in 1..MaxCols
  /\ rows \in 1..MaxRows
  /\ initialLength = Null
  /\ startDir = Null
  /\ snake = WallInitialSnake(cols, rows)
  /\ dir = WallStartDir
  /\ pendingDir = Null
  /\ score = 0
  /\ ticks = 0
  /\ gameOver = FALSE
  /\ food \in WallPlaceFood(snake, cols, rows)
  /\ lastOp = "create"
  /\ NoRacer /\ NoBubble /\ NoEscape /\ NoFoodLoop /\ NoFlight

\* changeDirection(key)
WallChangeDirection(key) ==
  /\ lastOp' = "changeDirection"
  /\ UNCHANGED <<options, snake, dir, food, score, ticks, gameOver>>
  /\ LET v == LookupDir(key) IN
       IF v = Null THEN UNCHANGED pendingDir
       ELSE IF IsReversal(dir, v[1]) THEN UNCHANGED pendingDir
       ELSE pendingDir' = v

\* reset()
WallReset ==
  /\ lastOp' = "reset"
  /\ snake' = WallInitialSnake(cols, rows)
  /\ dir' = WallStartDir
  /\ pendingDir' = Null
  /\ score' = 0
  /\ ticks' = 0
  /\ gameOver' = FALSE
  /\ food' \in WallPlaceFood(snake', cols, rows)
  /\ UNCHANGED options

\* mutant of OutOfBounds: the right and bottom walls are open
OutOfBoundsLowOnly(nx, ny, c, r) == Less(nx, 0) \/ Less(ny, 0)

\* nx < 0 || ny < 0 || nx >= cols || ny >= rows
OutOfBounds(nx, ny, c, r) ==
  Less(nx, 0) \/ Less(ny, 0) \/ AtLeast(nx, c) \/ AtLeast(ny, r)

\* state.snake.some((s, i) => i !== 0 && s.x === nx && s.y === ny)
WallHitsBody(s, nx, ny) ==
  \E i \in 2..Len(s) : StrictEq(s[i].x, nx) /\ StrictEq(s[i].y, ny)

\* step(); state.food is an object whenever step runs (placeFood has set it
\* at construction and in reset)
WallStep ==
  /\ lastOp' = "step"
  /\ UNCHANGED options
  /\ IF gameOver THEN UNCHANGED state
     ELSE
       LET d == IF pendingDir # Null THEN pendingDir[1] ELSE dir
           nx == Plus(snake[1].x, d.x)
           ny == Plus(snake[1].y, d.y)
       IN /\ dir' = d
          /\ pendingDir' = Null
          /\ IF OutOfBounds(nx, ny, cols, rows) \/ WallHitsBody(snake, nx, ny)
               THEN /\ gameOver' = TRUE
                    /\ UNCHANGED <<snake, food, score, ticks>>
             ELSE IF SameCell(food, Vec(nx, ny))
               THEN /\ ticks < MaxTicks
                    /\ snake' = <<Vec(nx, ny)>> \o snake
                    /\ score' = score + 1
                    /\ food' \in WallPlaceFood(snake', cols, rows)
                    /\ ticks' = ticks + 1
                    /\ UNCHANGED gameOver
             ELSE /\ ticks < MaxTicks
                  /\ snake' = <<Vec(nx, ny)>> \o SubSeq(snake, 1, Len(snake) - 1)
                  /\ ticks' = ticks + 1
                  /\ UNCHANGED <<food, score, gameOver>>

\* placeFood() called by the client of the engine: only state.food changes
WallCallPlaceFood ==
  /\ lastOp' = "placeFood"
  /\ food' \in WallPlaceFood(snake, cols, rows)
  /\ UNCHANGED <<options, snake, dir, pendingDir, score, ticks, gameOver>>

WallNext ==
  \/ (\E key \in Keys : WallChangeDirection(key)) /\ UNCHANGED <<racerState, bubbleState, escapeState, foodLoop, flightState>>
  \/ WallStep /\ UNCHANGED <<racerState, bubbleState, escapeState, foodLoop, flightState>>
  \/ WallReset /\ UNCHANGED <<racerState, bubbleState, escapeState, foodLoop, flightState>>
  \/ WallCallPlaceFood /\ UNCHANGED <<racerState, bubbleState, escapeState, foodLoop, flightState>>

WallSpec == WallInit /\ [][WallNext]_allVars

\* the cell one step from the head in the direction the step moves in, and
\* whether it is off the grid
WallTarget == Vec(snake[1].x + dir'.x, snake[1].y + dir'.y)
WallLeaves ==
  /\ lastOp' = "step" /\ ~gameOver
  /\ dir' \in UnitVectors /\ OnGrid(snake[1])
  /\ ~OnGrid(WallTarget)

\* C13, as stated: in the wall-death engine a step whose next head cell is
\* outside the grid sets gameOver and leaves snake, score and ticks as they
\* were; the head is never wrapped to the opposite edge.
C13_WallDeath ==
  [][WallLeaves =>
       /\ gameOver' = TRUE
       /\ snake' = snake /\ score' = score /\ ticks' = ticks
       /\ Toroidal(snake[1], dir') # snake[1] =>
            snake'[1] # Toroidal(snake[1], dir')]_vars

\* C13 witness: a game ended with the head on the right or bottom edge,
\* heading off it, after the snake had eaten and moved.
C13_Witness ==
  /\ lastOp = "step" /\ gameOver /\ score >= 1 /\ cols >= 2
  /\ dir \in UnitVectors /\ OnGrid(snake[1])
  /\ snake[1].x + dir.x = cols \/ snake[1].y + dir.y = rows

(***************************************************************************)
(* Part 3: the racing engine, createRacingEngine of                        *)
(* src/frontend_games_ui/src/games/racing/racingEngine.js.                 *)
(*                                                                         *)
(* Its numbers are floating point; the model holds them in fixed point and *)
(* rounds every product to the nearest unit:                               *)
(*   position        1/10000 px                                            *)
(*   velocity        1/10000 px/ms                                         *)
(*   acceleration    1/10000 px/ms^2                                       *)
(*   friction        1/10000 per ms                                        *)
(*   angle           quarter turns plus 1/10000 rad                        *)
(* state.angularVel (always 0) and state.running (never read or written by *)
(* the engine's operations) are left out.                                  *)
(***************************************************************************)
\* the elapsed time is counted up to this cap: a step past it is not explored
MaxTimeMs == 2500

\* the frame times explored, ms: no time, a slow frame, a resumed tab
Dts == {0, 500, 2500}

\* n px as a position
Px(n) == n * 10000

\* the default width and height, px
DefaultWidth == 640
DefaultHeight == 400

\* params
Accel == 18
BrakeAccel == 22
MaxSpeed == 5000
Friction == 9
TurnRate == 45

\* a / b rounded to the nearest integer (b > 0)
RoundDiv(a, b) ==
  IF a >= 0 THEN (2 * a + b) \div (2 * b) ELSE -((2 * (-a) + b) \div (2 * b))

Abs(a) == IF a >= 0 THEN a ELSE -a

\* an angle: quarters * pi/2 + rad / 10000
Angle(q, r) == [quarters |-> q, rad |-> r]

\* the options explored: the defaults; the track of RacingGame.jsx (the
\* default size, the start at the bottom centre heading up the screen); the
\* same track with the start 10 px above the finish line; and a long track
\* with the start near its right end
Pose(px, py, a) == [x |-> Px(px), y |-> Px(py), angle |-> a]
Options ==
  {[width |-> DefaultWidth, height |-> DefaultHeight,
    start |-> Pose(100, 200, Angle(0, 0))],
   [width |-> DefaultWidth, height |-> DefaultHeight,
    start |-> Pose(DefaultWidth \div 2, DefaultHeight - 80, Angle(-1, 0))],
   [width |-> DefaultWidth, height |-> DefaultHeight,
    start |-> Pose(DefaultWidth \div 2, 50, Angle(-1, 0))],
   [width |-> 2000, height |-> DefaultHeight,
    start |-> Pose(1900, 200, Angle(0, 0))]}

\* the control records passed to setInput that are explored: nothing held,
\* accelerate, accelerate with a turn either way, brake
Controls(u, d, l, r) == [up |-> u, down |-> d, left |-> l, right |-> r]
Inputs ==
  {Controls(FALSE, FALSE, FALSE, FALSE), Controls(TRUE, FALSE, FALSE, FALSE),
   Controls(TRUE, FALSE, TRUE, FALSE), Controls(TRUE, FALSE, FALSE, TRUE),
   Controls(FALSE, TRUE, FALSE, FALSE)}

\* the finish segment
Finish ==
  [x1 |-> Px(width \div 2 - 40), y1 |-> Px(60),
   x2 |-> Px(width \div 2 + 40), y2 |-> Px(60)]

\* 10000 * <<cos t, sin t>> at t = r / 10000 rad, for the r >= 0 that turning
\* for whole frames of Dts within MaxTimeMs reaches
Trig(r) ==
  CASE r = 0 -> <<10000, 0>>
    [] r = 22500 -> <<-6282, 7781>>
    [] r = 45000 -> <<-2108, -9775>>
    [] r = 67500 -> <<8930, 4500>>
    [] r = 90000 -> <<-9111, 4121>>
    [] r = 112500 -> <<2517, -9678>>

\* 10000 * Math.cos(a) and 10000 * Math.sin(a)
Cos(a) ==
  LET t == Trig(Abs(a.rad))
      c == t[1]
      sn == IF a.rad >= 0 THEN t[2] ELSE -t[2]
      q == a.quarters % 4
  IN CASE q = 0 -> c [] q = 1 -> -sn [] q = 2 -> -c [] q = 3 -> sn
Sin(a) ==
  LET t == Trig(Abs(a.rad))
      c == t[1]
      sn == IF a.rad >= 0 THEN t[2] ELSE -t[2]
      q == a.quarters % 4
  IN CASE q = 0 -> sn [] q = 1 -> c [] q = 2 -> -sn [] q = 3 -> -c

\* the largest r in lo..hi-1 with r * r <= n (lo * lo <= n < hi * hi)
RECURSIVE SqrtBetween(_, _, _)
SqrtBetween(n, lo, hi) ==
  CHOOSE root \in
    {IF h - l <= 1 THEN l
     ELSE IF mid * mid <= m THEN SqrtBetween(m, mid, h)
     ELSE SqrtBetween(m, l, mid) :
     <<m, l, h, mid>> \in {<<n, lo, hi, (lo + hi) \div 2>>}} : TRUE

\* Math.hypot(a, b); large arguments are scaled down before squaring
Hypot(a, b) ==
  LET k == 1 + (Abs(a) + Abs(b)) \div 30000
      a2 == (a \div k) * (a \div k) + (b \div k) * (b \div k)
  IN k * SqrtBetween(a2, 0, 46341)

\* speed > params.maxSpeed
TooFast(v) ==
  \/ Abs(v.x) > MaxSpeed
  \/ Abs(v.y) > MaxSpeed
  \/ v.x * v.x + v.y * v.y > MaxSpeed * MaxSpeed

\* rotation
Turned(a, in, dt) ==
  Angle(a.quarters,
        a.rad - (IF in.left THEN TurnRate * dt ELSE 0)
              + (IF in.right THEN TurnRate * dt ELSE 0))

\* acc
Thrust(in) ==
  (IF in.up THEN Accel ELSE 0) - (IF in.down THEN BrakeAccel ELSE 0)

\* acceleration along the forward vector
Accelerated(v, a, in, dt) ==
  Vec(v.x + RoundDiv(Cos(a) * Thrust(in) * dt, 10000),
      v.y + RoundDiv(Sin(a) * Thrust(in) * dt, 10000))

\* clamp speed
ClampSpeed(v) ==
  IF TooFast(v)
    THEN LET speed == Hypot(v.x, v.y)
         IN Vec(RoundDiv(v.x * MaxSpeed, speed), RoundDiv(v.y * MaxSpeed, speed))
  ELSE v

\* friction
Slowed(v, dt) ==
  LET fr == 10000 - Friction * dt
  IN Vec(RoundDiv(v.x * fr, 10000), RoundDiv(v.y * fr, 10000))

\* the velocity step(dt) integrates the position with
Velocity(v, a, in, dt) ==
  Slowed(ClampSpeed(Accelerated(v, Turned(a, in, dt), in, dt)), dt)

\* position
Integrated(p, v, dt) == Vec(p.x + v.x * dt, p.y + v.y * dt)

\* what a strict comparison of a coordinate with a limit can give: the
\* coordinate was integrated in floating point with velocity v, so when its
\* fixed-point value is the limit itself the double may lie on either side
Beyond(strictly, coord, limit, v) ==
  IF coord = limit /\ v # 0 THEN BOOLEAN ELSE {strictly}

\* one coordinate of the bounds: the test against the lower limit, then the
\* test against the upper limit
BoundedAxis(c, v, lo, hi) ==
  {[pos |-> IF high THEN hi ELSE IF low THEN lo ELSE c,
    vel |-> IF high \/ low THEN 0 ELSE v] :
     <<low, high>> \in
       {<<l, h>> \in BOOLEAN \X BOOLEAN :
          /\ l \in Beyond(c < lo, c, lo, v)
          /\ h \in (IF l THEN {lo > hi} ELSE Beyond(c > hi, c, hi, v))}}

\* mutant of Bounded: the walls stop the car but leave its velocity
BoundedKeepsVelocity(p, v) ==
  {[pos |-> Vec(bx.pos, by.pos), vel |-> v] :
     bx \in BoundedAxis(p.x, v.x, Px(10), Px(width - 10)),
     by \in BoundedAxis(p.y, v.y, Px(10), Px(height - 10))}

\* bounds: the four tests in their order, as the set of their outcomes
Bounded(p, v) ==
  {[pos |-> Vec(bx.pos, by.pos), vel |-> Vec(bx.vel, by.vel)] :
     bx \in BoundedAxis(p.x, v.x, Px(10), Px(width - 10)),
     by \in BoundedAxis(p.y, v.y, Px(10), Px(height - 10))}

\* lap detection: 1 or -1, the direction of a crossing of the finish segment,
\* or 0 for none
Crossing(p, v, dt) ==
  LET prevY == p.y - v.y * dt
      up == prevY > Finish.y1 /\ p.y <= Finish.y1
      down == prevY < Finish.y1 /\ p.y >= Finish.y1
  IN IF (up \/ down) /\ p.x >= Finish.x1 /\ p.x <= Finish.x2
       THEN (IF up THEN 1 ELSE -1)
     ELSE 0

\* CarRacerCanvas.step, lap detection: prevY is the Y stored before the
\* integration, p the position after the wall clamp; the steps before it are
\* those of racingEngine.step
CanvasLap(prevY, p) ==
  LET crosses == /\ \/ (prevY > Finish.y1 /\ p.y <= Finish.y1)
                    \/ (prevY < Finish.y1 /\ p.y >= Finish.y1)
                 /\ p.x >= Finish.x1 /\ p.x <= Finish.x2
  IN crosses /\ prevY > Finish.y1 /\ p.y <= Finish.y1

\* createRacingEngine({width, height, start}), including the reset() call that ends it
RacerInit ==
  /\ \E o \in Options : width = o.width /\ height = o.height /\ start = o.start
  /\ pos = Vec(start.x, start.y)
  /\ vel = Vec(0, 0)
  /\ angle = start.angle
  /\ laps = 0
  /\ timeMs = 0
  /\ lastCrossedDir = 0
  /\ input = [up |-> FALSE, down |-> FALSE, left |-> FALSE, right |-> FALSE]
  /\ canvasLaps = 0
  /\ lastOp = "create"
  /\ cols = Null /\ rows = Null /\ initialLength = Null /\ startDir = Null
  /\ snake = Null /\ dir = Null /\ pendingDir = Null /\ food = Null
  /\ score = Null /\ ticks = Null /\ gameOver = Null
  /\ NoBubble /\ NoEscape /\ NoFoodLoop /\ NoFlight

\* mutant of RacerReset: the controls are released as well
RacerResetReleasesInput ==
  /\ lastOp' = "reset"
  /\ pos' = Vec(start.x, start.y)
  /\ vel' = Vec(0, 0)
  /\ angle' = start.angle
  /\ laps' = 0
  /\ timeMs' = 0
  /\ lastCrossedDir' = 0
  /\ input' = [up |-> FALSE, down |-> FALSE, left |-> FALSE, right |-> FALSE]
  /\ canvasLaps' = 0
  /\ UNCHANGED <<width, height, start>>

\* reset()
RacerReset ==
  /\ lastOp' = "reset"
  /\ pos' = Vec(start.x, start.y)
  /\ vel' = Vec(0, 0)
  /\ angle' = start.angle
  /\ laps' = 0
  /\ timeMs' = 0
  /\ lastCrossedDir' = 0
  /\ canvasLaps' = 0
  /\ UNCHANGED <<width, height, start, input>>

\* setInput(newInput)
setInput(newInput) ==
  /\ lastOp' = "setInput"
  /\ input' = [up |-> newInput.up, down |-> newInput.down,
               left |-> newInput.left, right |-> newInput.right]
  /\ UNCHANGED <<width, height, start, pos, vel, angle, laps, timeMs, lastCrossedDir,
                  canvasLaps>>

\* step(dtMs)
RacerStep(dtMs) ==
  /\ timeMs + dtMs <= MaxTimeMs
  /\ lastOp' = "step"
  /\ timeMs' = timeMs + dtMs
  /\ angle' = Turned(angle, input, dtMs)
  /\ \E v \in {Velocity(vel, angle, input, dtMs)} :
     \E b \in Bounded(Integrated(pos, v, dtMs), v) :
     \E crossed \in {Crossing(b.pos, b.vel, dtMs)} :
        /\ pos' = b.pos
        /\ vel' = b.vel
        /\ laps' = IF crossed = 1 THEN laps + 1 ELSE laps
        /\ lastCrossedDir' = crossed
        /\ canvasLaps' = IF CanvasLap(pos.y, b.pos) THEN canvasLaps + 1 ELSE canvasLaps
  /\ UNCHANGED <<width, height, start, input>>

RacerNext ==
  \/ (\E newInput \in Inputs : setInput(newInput)) /\ UNCHANGED <<options, state, bubbleState, escapeState, foodLoop, flightState>>
  \/ (\E dtMs \in Dts : RacerStep(dtMs)) /\ UNCHANGED <<options, state, bubbleState, escapeState, foodLoop, flightState>>
  \/ RacerReset /\ UNCHANGED <<options, state, bubbleState, escapeState, foodLoop, flightState>>

RacerSpec == RacerInit /\ [][RacerNext]_allVars

\* C14, as stated: after every step made with accelerate held, whatever the
\* frame time and the turn inputs, the speed is at most params.maxSpeed (to
\* one unit of the fixed-point velocity).
C14_SpeedClamp ==
  lastOp = "step" /\ input.up =>
    vel.x * vel.x + vel.y * vel.y <= (MaxSpeed + 1) * (MaxSpeed + 1)

\* the step takes the car from below the finish line to the line or above
\* it, and ends with X on the finish segment
CrossesUp ==
  /\ pos.y > Finish.y1 /\ pos'.y <= Finish.y1
  /\ pos'.x >= Finish.x1 /\ pos'.x <= Finish.x2

\* the frame is short enough for the friction factor 1 - friction * dt to be
\* nonnegative
FrictionSlows == Friction * (timeMs' - timeMs) <= 10000

\* C15, as stated (and only for frames during which friction slows the
\* car): a step that takes Y from above 60 to 60 or less with X on the
\* finish segment adds exactly 1 to laps; every other step leaves laps
\* alone; only reset lowers laps.
C15_LapCounting ==
  [][/\ lastOp' = "step" /\ FrictionSlows =>
          IF CrossesUp THEN laps' = laps + 1 ELSE laps' = laps
     /\ lastOp' # "reset" => laps' >= laps]_racerVars

\* C16, as stated: after every step the position is within 10 px of no
\* wall, 10 <= x <= width - 10 and 10 <= y <= height - 10; a coordinate the
\* step clamped (one integrated beyond a wall, or onto it while moving, where
\* the comparison may fall either way) lies on that wall with velocity
\* component 0, and a coordinate it did not clamp keeps the position and
\* velocity the integration gave it.
C16_Bounds ==
  [][lastOp' = "step" =>
       LET dtMs == timeMs' - timeMs
           v == Velocity(vel, angle, input, dtMs)
           p == Integrated(pos, v, dtMs)
           offX == p.x < Px(10) \/ p.x > Px(width - 10)
           offY == p.y < Px(10) \/ p.y > Px(height - 10)
           inX == Px(10) < p.x /\ p.x < Px(width - 10)
           inY == Px(10) < p.y /\ p.y < Px(height - 10)
           keptX == pos'.x = p.x /\ vel'.x = v.x
           keptY == pos'.y = p.y /\ vel'.y = v.y
           clampedX == pos'.x \in {Px(10), Px(width - 10)} /\ vel'.x = 0
           clampedY == pos'.y \in {Px(10), Px(height - 10)} /\ vel'.y = 0
       IN /\ Px(10) <= pos'.x /\ pos'.x <= Px(width - 10)
          /\ Px(10) <= pos'.y /\ pos'.y <= Px(height - 10)
          /\ offX => clampedX
          /\ offY => clampedY
          /\ inX => keptX
          /\ inY => keptY
          /\ keptX \/ clampedX
          /\ keptY \/ clampedY]_racerVars

\* C16 witness: a step has stopped the car at the top wall while it keeps
\* moving sideways.
C16_Witness ==
  lastOp = "step" /\ pos.y = Px(10) /\ vel.y = 0 /\ vel.x # 0

\* C17, as stated: reset puts the position and angle at the start pose, the
\* velocity at (0, 0), laps, timeMs and lastCrossedDir at 0, and leaves the
\* input flags and the start option as they were.
C17_RacerReset ==
  [][lastOp' = "reset" =>
       /\ pos' = Vec(start.x, start.y)
       /\ angle' = start.angle
       /\ vel' = Vec(0, 0)
       /\ laps' = 0 /\ timeMs' = 0 /\ lastCrossedDir' = 0
       /\ input' = input /\ UNCHANGED <<width, height, start>>]_racerVars

\* C17 witness: a reset was made with accelerate and a turn held, and they
\* are still held.
C17_Witness ==
  /\ lastOp = "reset" /\ input.up /\ input.left
  /\ pos = Vec(start.x, start.y) /\ timeMs = 0

\* C35, as stated: run from the same start state on the same input flags and
\* frame times, racingEngine.step and CarRacerCanvas.step report the same lap
\* count after every step.
C35_LapAgreement == laps = canvasLaps

\* the step takes the car from above the finish line to the line or below
\* it, and ends with X on the finish segment
CrossesDown ==
  /\ pos.y < Finish.y1 /\ pos'.y >= Finish.y1
  /\ pos'.x >= Finish.x1 /\ pos'.x <= Finish.x2

\* C36, as stated: after every step lastCrossedDir is -1, 0 or 1; it is 1
\* exactly when the step added a lap, -1 exactly when the step crossed the
\* finish segment in the reverse direction (laps unchanged), and 0 when the
\* step made no crossing.
C36_LastCrossing ==
  [][lastOp' = "step" =>
       /\ lastCrossedDir' \in {-1, 0, 1}
       /\ lastCrossedDir' = 1 <=> laps' = laps + 1
       /\ lastCrossedDir' = -1 <=> (CrossesDown /\ laps' = laps)
       /\ (~CrossesUp /\ ~CrossesDown) => lastCrossedDir' = 0]_racerVars

(***************************************************************************)
(* Part 4: the bubble shooter, the BubbleShooter component of              *)
(* src/unnamed/part_005.  The grid is a function from cells <<r, c>> to    *)
(* Null or Obj(colour).  The geometry of aiming and flight (the mouse, the *)
(* shooter angle, the shot's position and velocity) is a hidden input: a   *)
(* shot in flight is held as its colour, and where and when it makes       *)
(* contact is a nondeterministic choice, as is every Math.random result.   *)
(* The aim itself (mouse to shooter angle to launch velocity) is modelled   *)
(* on its own under AimSpec.                                               *)
(***************************************************************************)
\* largest grid explored: COLS and ROWS up to these
MaxGridCols == 2
MaxGridRows == 2
\* score is counted up to this cap: an update that would count further is
\* not explored
MaxScore == 40

\* ms between row shifts
SHIFT_INTERVAL == 6000

\* the times between two frames explored, ms: half a shift interval and a
\* whole one
FrameTimes == {SHIFT_INTERVAL \div 2, SHIFT_INTERVAL}

\* the dt loop(ts) passes on when lastTsRef.current is last and the frames
\* are said times apart: 0 on the first frame after a mount or a resetGame
\* (lastTsRef.current is 0 and takes ts before the subtraction)
FrameDt(last, times) == IF last = 0 THEN {0} ELSE times

\* two of the six colours
COLORS == {"#2563EB", "#F59E0B"}

\* what a grid cell holds: null or { color }
CellValues == {Null} \cup {Obj(k) : k \in COLORS}

GridCells(R, C) == (0..(R - 1)) \X (0..(C - 1))

\* createGrid(rows, cols)
createGrid(R, C) == [cell \in GridCells(R, C) |-> Null]

\* every grid of R rows and C columns
Grids(R, C) == [GridCells(R, C) -> CellValues]

\* the grids seedTopRows(grid, n) leaves of createGrid(R, C) that are
\* explored: each of the top n rows is left empty or filled with one colour
\* (of all the ways Math.random can fill it)
seedTopRows(R, C, n) ==
  {[cell \in GridCells(R, C) |-> IF cell[1] < n THEN fill[cell[1]] ELSE Null] :
     fill \in [0..(R - 1) -> CellValues]}

\* mutant of neighbors: the four diagonal cells are neighbours too
neighborsWithDiagonals(r, c, R, C) ==
  {n \in ((r - 1)..(r + 1)) \X ((c - 1)..(c + 1)) :
     n # <<r, c>> /\ n[1] >= 0 /\ n[1] < R /\ n[2] >= 0 /\ n[2] < C}

\* neighbors(r, c)
neighbors(r, c, R, C) ==
  {n \in {<<r - 1, c>>, <<r, c + 1>>, <<r + 1, c>>, <<r, c - 1>>} :
     n[1] >= 0 /\ n[1] < R /\ n[2] >= 0 /\ n[2] < C}

\* the element of a one-element set
Only(S) == CHOOSE x \in S : TRUE

\* the cells a breadth-first search from the cells of S visits, when it
\* enqueues the neighbours that are in allowed
RECURSIVE Visited(_, _, _, _)
Visited(S, allowed, R, C) ==
  Only({Only({IF more = {} THEN seen ELSE Visited(seen \cup more, among, R, C) :
              more \in {{n \in among \ seen :
                           \E v \in seen : n \in neighbors(v[1], v[2], R, C)}}}) :
        seen \in {S}, among \in {allowed}})

\* g with the cells of S emptied
Cleared(g, S) == [cell \in DOMAIN g |-> IF cell \in S THEN Null ELSE g[cell]]

\* mutant of popClusters: a pair is enough to pop
popClustersOfTwo(g, R, C, startR, startC) ==
  IF g[<<startR, startC>>] = Null THEN [grid |-> g, popped |-> 0]
  ELSE
    LET target == g[<<startR, startC>>]
        same == {cell \in GridCells(R, C) : g[cell] = target}
    IN Only({IF Cardinality(group) >= 2
               THEN [grid |-> Cleared(g, group), popped |-> Cardinality(group)]
             ELSE [grid |-> g, popped |-> 0] :
             group \in {Visited({<<startR, startC>>}, same, R, C)}})

\* popClusters(startR, startC): the grid it leaves and the number it returns
popClusters(g, R, C, startR, startC) ==
  IF g[<<startR, startC>>] = Null THEN [grid |-> g, popped |-> 0]
  ELSE
    LET target == g[<<startR, startC>>]
        same == {cell \in GridCells(R, C) : g[cell] = target}
    IN Only({IF Cardinality(group) >= 3
               THEN [grid |-> Cleared(g, group), popped |-> Cardinality(group)]
             ELSE [grid |-> g, popped |-> 0] :
             group \in {Visited({<<startR, startC>>}, same, R, C)}})

\* mutant of dropFloatingBubbles: a pass drops only the first floating
\* bubble it meets
dropFirstFloatingBubble(g, R, C) ==
  LET occupied == {cell \in GridCells(R, C) : g[cell] # Null}
      connected == Visited({cell \in occupied : cell[1] = 0}, occupied, R, C)
      floating == occupied \ connected
      first == {cell \in floating :
                  \A o \in floating :
                     cell[1] < o[1] \/ (cell[1] = o[1] /\ cell[2] <= o[2])}
  IN Only({[grid |-> Cleared(g, S), dropped |-> Cardinality(S)] : S \in {first}})

\* dropFloatingBubbles(): the grid it leaves and the number of cells it
\* cleared (each adds 5 to the score)
dropFloatingBubbles(g, R, C) ==
  LET occupied == {cell \in GridCells(R, C) : g[cell] # Null}
      connected == Visited({cell \in occupied : cell[1] = 0}, occupied, R, C)
      floating == occupied \ connected
  IN Only({[grid |-> Cleared(g, S), dropped |-> Cardinality(S)] : S \in {floating}})

\* neighborEmptyCellNear(c, r, wx, wy): the empty cell among the six tried
\* that is nearest the shot (any of them, the shot's position being hidden),
\* or <<r, c>> itself when none is empty
neighborEmptyCellNear(g, R, C, c, r) ==
  LET tried == {<<r - 1, c>>, <<r, c + 1>>, <<r + 1, c>>, <<r, c - 1>>,
                <<r - 1, c + 1>>, <<r + 1, c - 1>>}
      empty == {n \in tried \cap GridCells(R, C) : g[n] = Null}
  IN IF empty = {} THEN {<<r, c>>} ELSE empty

\* the i-th cell offset <<dr, dc>> that spiralFindEmpty tries at distance d
SpiralOffset(d, i) ==
  <<((i - 1) \div (2 * d + 1)) - d, ((i - 1) % (2 * d + 1)) - d>>

\* the first empty cell spiralFindEmpty meets at distance d, as a set (empty
\* when there is none)
SpiralAt(g, R, C, r0, c0, d) ==
  LET n == (2 * d + 1) * (2 * d + 1)
      at(i) == <<r0 + SpiralOffset(d, i)[1], c0 + SpiralOffset(d, i)[2]>>
      hit(i) == at(i) \in GridCells(R, C) /\ g[at(i)] = Null
      hits == {i \in 1..n : hit(i)}
  IN {at(i) : i \in {j \in hits : \A k \in hits : j <= k}}

\* spiralFindEmpty(r0, c0, grid): Obj(cell), or Null
spiralFindEmpty(g, R, C, r0, c0) ==
  IF SpiralAt(g, R, C, r0, c0, 1) # {}
    THEN Obj(CHOOSE cell \in SpiralAt(g, R, C, r0, c0, 1) : TRUE)
  ELSE IF SpiralAt(g, R, C, r0, c0, 2) # {}
    THEN Obj(CHOOSE cell \in SpiralAt(g, R, C, r0, c0, 2) : TRUE)
  ELSE Null

\* mutant of ClearAfter: the dropped bubbles are not scored
ClearAfterUnscored(pop, R, C) ==
  Only({[grid |-> drop.grid, gain |-> pop.popped * 10] :
        drop \in {dropFloatingBubbles(pop.grid, R, C)}})

\* the tail of attachShotToGrid: the floating cleanup after popClusters
\* returned pop, and the score the two add
ClearAfter(pop, R, C) ==
  Only({[grid |-> drop.grid, gain |-> pop.popped * 10 + drop.dropped * 5] :
        drop \in {dropFloatingBubbles(pop.grid, R, C)}})

\* mutant of PlaceAndClear: the preferred cell is written whatever it holds
PlaceAndClearOverwrites(g, R, C, color, rr, cc) ==
  Only({[grid |-> a.grid, gain |-> a.gain,
         placed |-> [r |-> rr, c |-> cc, color |-> color]] :
        a \in {ClearAfter(pop, R, C) :
                 pop \in {popClusters([g EXCEPT ![<<rr, cc>>] = Obj(color)],
                                      R, C, rr, cc)}}})

\* attachShotToGrid from "place shot bubble" on, for the preferred cell
\* <<rr, cc>>: the grid it leaves, what it adds to the score, and the cell it
\* wrote (Null when it found none)
PlaceAndClear(g, R, C, color, rr, cc) ==
  Only({LET at == IF found = Null THEN <<rr, cc>> ELSE found[1]
            g1 == IF found = Null THEN g ELSE [g EXCEPT ![at] = Obj(color)]
        IN Only({[grid |-> a.grid, gain |-> a.gain,
                  placed |-> IF found = Null THEN Null
                             ELSE [r |-> at[1], c |-> at[2], color |-> color]] :
                 a \in {ClearAfter(pop, R, C) :
                          pop \in {popClusters(g1, R, C, at[1], at[2])}}}) :
        found \in {IF g[<<rr, cc>>] = Null THEN Obj(<<rr, cc>>)
                   ELSE spiralFindEmpty(g, R, C, rr, cc)}})

\* the preferred cells attachShotToGrid computes: contact is "ceiling" (the
\* shot reached the ceiling over column c) or "bubble" (it touched the
\* bubble at <<r, c>>)
PreferredCells(g, R, C, contact, r, c) ==
  IF contact = "bubble" THEN neighborEmptyCellNear(g, R, C, c, r)
  ELSE IF g[<<0, c>>] # Null THEN neighborEmptyCellNear(g, R, C, c, 0)
  ELSE {<<0, c>>}

\* the contacts a shot in flight over grid g can make
Contacts(g, R, C) ==
  {[kind |-> "ceiling", r |-> 0, c |-> c] : c \in 0..(C - 1)}
    \cup {[kind |-> "bubble", r |-> cell[1], c |-> cell[2]] :
            cell \in {x \in GridCells(R, C) : g[x] # Null}}

\* mutant of shiftRowsDown: the rows are copied from the top down, so every
\* row ends as a copy of the old row 0
shiftRowsDownTopFirst(g, R, C, newRow) ==
  IF \E c \in 0..(C - 1) : g[<<R - 1, c>>] # Null
    THEN [grid |-> g, over |-> TRUE]
  ELSE [grid |-> [cell \in GridCells(R, C) |->
                    IF cell[1] = 0 THEN newRow[cell[2]]
                    ELSE g[<<0, cell[2]>>]],
        over |-> FALSE]

\* shiftRowsDown() with top row newRow: the grid it leaves, and whether it
\* ended the game
shiftRowsDown(g, R, C, newRow) ==
  IF \E c \in 0..(C - 1) : g[<<R - 1, c>>] # Null
    THEN [grid |-> g, over |-> TRUE]
  ELSE [grid |-> [cell \in GridCells(R, C) |->
                    IF cell[1] = 0 THEN newRow[cell[2]]
                    ELSE g[<<cell[1] - 1, cell[2]>>]],
        over |-> FALSE]

\* what the row-shift part of update can leave: the grid as it is when no
\* shift is due, else what shiftRowsDown leaves for each new top row
ShiftOutcomes(g, R, C, due) ==
  IF due THEN {shiftRowsDown(g, R, C, newRow) : newRow \in [0..(C - 1) -> CellValues]}
  ELSE {[grid |-> g, over |-> FALSE]}

\* The animation loop is registered once, by the effect that runs at mount
\* (its dependency list is empty), and re-registers itself; the update it
\* calls is the one of the first render, whose running and gameOver are the
\* initial state values, whatever setRunning and setGameOver did since.
LoopRunning == TRUE
LoopGameOver == FALSE

\* the variables of the other engines, and ticks
NoEngineButBubble ==
  /\ cols = Null /\ rows = Null /\ initialLength = Null /\ startDir = Null
  /\ snake = Null /\ dir = Null /\ pendingDir = Null /\ food = Null
  /\ ticks = Null
  /\ NoRacer /\ NoEscape /\ NoFoodLoop /\ NoFlight
notBubble ==
  <<cols, rows, initialLength, startDir, snake, dir, pendingDir, food, ticks,
    racerState, escapeState, foodLoop, flightState>>

\* mount: the effect calls resetGame() and registers the loop
BubbleInit ==
  /\ COLS \in 1..MaxGridCols
  /\ ROWS \in 1..MaxGridRows
  /\ score = 0
  /\ gameOver = FALSE
  /\ running = TRUE
  /\ rowShiftTimer = 0
  /\ lastTs = 0
  /\ grid \in seedTopRows(ROWS, COLS, 5)
  /\ shot = Null
  /\ pendingShot = FALSE
  /\ currentBubble \in COLORS
  /\ nextBubble \in COLORS
  /\ mouse = Null
  /\ shooterAngle = Null
  /\ placed = Null
  /\ lastOp = "create"
  /\ NoEngineButBubble

\* resetGame(), from the Restart button
resetGame ==
  /\ lastOp' = "resetGame"
  /\ score' = 0
  /\ gameOver' = FALSE
  /\ running' = TRUE
  /\ lastTs' = 0
  /\ rowShiftTimer' = 0
  /\ grid' \in seedTopRows(ROWS, COLS, 5)
  /\ shot' = Null
  /\ currentBubble' \in COLORS
  /\ nextBubble' \in COLORS
  /\ placed' = Null
  /\ UNCHANGED <<COLS, ROWS, pendingShot, mouse, shooterAngle>>

\* onClick
onClick ==
  /\ lastOp' = "onClick"
  /\ pendingShot' = TRUE
  /\ UNCHANGED <<COLS, ROWS, mouse, shooterAngle, grid, shot, currentBubble, nextBubble, running,
                 rowShiftTimer, lastTs, placed, score, gameOver>>

\* the Start button (disabled while running and not over)
StartButton ==
  /\ ~(running /\ ~gameOver)
  /\ lastOp' = "start"
  /\ running' = TRUE
  /\ UNCHANGED <<COLS, ROWS, mouse, shooterAngle, grid, shot, pendingShot, currentBubble, nextBubble,
                 rowShiftTimer, lastTs, placed, score, gameOver>>

\* the Pause button (disabled while not running)
PauseButton ==
  /\ running
  /\ lastOp' = "pause"
  /\ running' = FALSE
  /\ UNCHANGED <<COLS, ROWS, mouse, shooterAngle, grid, shot, pendingShot, currentBubble, nextBubble,
                 rowShiftTimer, lastTs, placed, score, gameOver>>

\* mutant of Launched: the shot takes the queued colour
LaunchedQueued(loaded, queued) == Obj(queued)

\* the shot updateShooter launches (held as its colour) when loaded is the
\* loaded colour and queued the queued one
Launched(loaded, queued) == Obj(loaded)

\* one animation frame: loop(ts) calling update(dt).  A shot launched in this
\* frame starts below every cell and out of contact with the lowest row, so
\* it flies on; a shot already in flight flies on or makes one of its contacts.
update(dt) ==
  /\ lastOp' = "update"
  /\ UNCHANGED <<COLS, ROWS, mouse, shooterAngle>>
  /\ IF ~LoopRunning \/ LoopGameOver
       THEN UNCHANGED <<grid, shot, pendingShot, currentBubble, nextBubble,
                        running, rowShiftTimer, placed, score, gameOver>>
     ELSE
       \E shift \in ShiftOutcomes(grid, ROWS, COLS, rowShiftTimer + dt >= SHIFT_INTERVAL) :
         LET due == rowShiftTimer + dt >= SHIFT_INTERVAL
             launch == pendingShot /\ shot = Null /\ LoopRunning /\ ~LoopGameOver
         IN /\ rowShiftTimer' = IF due THEN 0 ELSE rowShiftTimer + dt
            /\ running' = IF shift.over THEN FALSE ELSE running
            /\ gameOver' = IF shift.over THEN TRUE ELSE gameOver
            /\ pendingShot' = IF launch THEN FALSE ELSE pendingShot
            /\ IF launch
                 THEN /\ shot' = Launched(currentBubble, nextBubble)
                      /\ grid' = shift.grid
                      /\ UNCHANGED <<currentBubble, nextBubble, placed, score>>
               ELSE IF shot = Null
                 THEN /\ grid' = shift.grid
                      /\ UNCHANGED <<shot, currentBubble, nextBubble, placed, score>>
               ELSE
                 \/ /\ grid' = shift.grid
                    /\ UNCHANGED <<shot, currentBubble, nextBubble, placed, score>>
                 \/ \E contact \in Contacts(shift.grid, ROWS, COLS) :
                      \E cell \in PreferredCells(shift.grid, ROWS, COLS,
                                                 contact.kind, contact.r, contact.c) :
                        \E a \in {PlaceAndClear(shift.grid, ROWS, COLS, shot[1],
                                                  cell[1], cell[2])} :
                           /\ score + a.gain <= MaxScore
                           /\ grid' = a.grid
                           /\ score' = score + a.gain
                           /\ placed' = Null
                           /\ shot' = Null
                           /\ currentBubble' = nextBubble
                           /\ nextBubble' \in COLORS

\* loop(ts): the frame time, then update(dt)
loop ==
  \E dt \in FrameDt(lastTs, FrameTimes) :
    /\ lastTs' = 1
    /\ update(dt)

BubbleNext ==
  \/ loop /\ UNCHANGED notBubble
  \/ onClick /\ UNCHANGED notBubble
  \/ StartButton /\ UNCHANGED notBubble
  \/ PauseButton /\ UNCHANGED notBubble
  \/ resetGame /\ UNCHANGED notBubble

BubbleSpec == BubbleInit /\ [][BubbleNext]_allVars

\* C20: if a cell of the bottom row is occupied when a row shift is due (the
\* frame's dt takes the timer to SHIFT_INTERVAL, and the timer is reset), the
\* game becomes over and not running and that shift moves no row, and from
\* then on no animation frame changes the grid until resetGame
C20_TerminalShift ==
  [][/\ (/\ lastOp' = "update"
         /\ \E dt \in FrameDt(lastTs, FrameTimes) :
              rowShiftTimer + dt >= SHIFT_INTERVAL
         /\ rowShiftTimer' = 0
         /\ \E c \in 0..(COLS - 1) : grid[<<ROWS - 1, c>>] # Null)
        => (/\ gameOver' /\ ~running'
            /\ (shot = Null => grid' = grid))
     /\ (gameOver /\ lastOp' = "update") => grid' = grid]_allVars

\* C21: an animation frame that finds the game paused (not running, not
\* over) changes nothing: not the row-shift timer, the grid, the shot, the
\* pending click, the score
C21_PausedFrame ==
  [][(~running /\ ~gameOver /\ lastOp' = "update") =>
       UNCHANGED <<rowShiftTimer, grid, shot, pendingShot, score, gameOver>>]_allVars

\* C22: a click made while a shot is in flight, or while the game is not
\* running or is over, changes nothing (so no shot is launched for it, then
\* or later), and there is never more than one shot
C22_ShootWhileBusy ==
  [][/\ (lastOp' = "onClick" /\ (shot # Null \/ ~running \/ gameOver)) =>
          UNCHANGED <<grid, shot, pendingShot, currentBubble, nextBubble,
                      running, rowShiftTimer, score, gameOver>>
     /\ shot' \in CellValues]_allVars

\* a frame launches a shot / resolves the attachment of the shot in flight
Launches == lastOp' = "update" /\ shot = Null /\ shot' # Null
Attaches == lastOp' = "update" /\ shot # Null /\ shot' = Null

\* in a frame without a row shift, every cell that gained a bubble holds
\* the colour of the shot that was in flight
WritesShotColour ==
  rowShiftTimer' # 0 =>
    \A cell \in DOMAIN grid :
       (grid[cell] = Null /\ grid'[cell] # Null) => grid'[cell] = shot

\* C23 as stated: the launch carries the loaded colour and, in the same
\* step, the queued colour becomes the loaded one and a new one is queued;
\* the colour written at the attachment is the shot's
C23_HandOverAtShoot ==
  [][/\ Launches => (/\ shot' = Obj(currentBubble)
                      /\ currentBubble' = nextBubble
                      /\ nextBubble' \in COLORS)
     /\ Attaches => WritesShotColour]_allVars

\* C23 amended: the launch carries the loaded colour and leaves the loaded
\* and the queued colour as they are; the shot keeps its colour in flight;
\* the frame that resolves its attachment writes that colour, makes the
\* queued colour the loaded one and queues a new one
C23_HandOverAtAttach ==
  [][/\ Launches => (/\ shot' = Obj(currentBubble)
                      /\ UNCHANGED <<currentBubble, nextBubble>>)
     /\ (shot # Null /\ shot' # Null) => shot' = shot
     /\ Attaches => (/\ WritesShotColour
                      /\ currentBubble' = nextBubble
                      /\ nextBubble' \in COLORS)]_allVars

\* a shot is in flight with the loaded colour, the queued colour being
\* another one
C23_Witness ==
  /\ lastOp = "update" /\ shot = Obj(currentBubble)
  /\ nextBubble # currentBubble

\* ---------------------------------------------------------------------
\* The attachment tail and the floating cleanup as pure functions of the
\* grid: the grid is drawn from every grid of the bounded sizes, one
\* placement is applied to it, and the floating cleanup is run on what is
\* there, any number of times.

ClusterInit ==
  /\ COLS \in 1..MaxGridCols
  /\ ROWS \in 1..MaxGridRows
  /\ grid \in Grids(ROWS, COLS)
  /\ score = 0
  /\ gameOver = FALSE
  /\ running = TRUE
  /\ rowShiftTimer = 0
  /\ lastTs = 0
  /\ shot = Null
  /\ pendingShot = FALSE
  /\ currentBubble \in COLORS
  /\ nextBubble = Null
  /\ mouse = Null
  /\ shooterAngle = Null
  /\ placed = Null
  /\ lastOp = "create"
  /\ NoEngineButBubble

\* attachShotToGrid from "place shot bubble" on, for a shot of the current
\* colour and the preferred cell <<rr, cc>>
attachShotToGrid(rr, cc) ==
  /\ lastOp = "create"
  /\ lastOp' = "place"
  /\ \E a \in {PlaceAndClear(grid, ROWS, COLS, currentBubble, rr, cc)} :
       /\ grid' = a.grid
       /\ score' = score + a.gain
       /\ placed' = a.placed
  /\ UNCHANGED <<COLS, ROWS, mouse, shooterAngle, shot, pendingShot, currentBubble, nextBubble, running,
                 rowShiftTimer, lastTs, gameOver>>

\* attachShotToGrid(shot, aroundC, aroundR) as updateShot calls it, for a
\* shot of the current colour that made the given contact
attachOnContact(contact) ==
  /\ lastOp = "create"
  /\ lastOp' = "attach"
  /\ \E cell \in PreferredCells(grid, ROWS, COLS, contact.kind, contact.r, contact.c) :
       \E a \in {PlaceAndClear(grid, ROWS, COLS, currentBubble, cell[1], cell[2])} :
         /\ grid' = a.grid
         /\ score' = score + a.gain
         /\ placed' = a.placed
  /\ UNCHANGED <<COLS, ROWS, mouse, shooterAngle, shot, pendingShot, currentBubble, nextBubble, running,
                 rowShiftTimer, lastTs, gameOver>>

\* dropFloatingBubbles() on its own
dropFloating ==
  /\ lastOp' = "drop"
  /\ \E d \in {dropFloatingBubbles(grid, ROWS, COLS)} :
       /\ grid' = d.grid
       /\ score' = score + d.dropped * 5
  /\ UNCHANGED <<COLS, ROWS, mouse, shooterAngle, shot, pendingShot, currentBubble, nextBubble, running,
                 rowShiftTimer, lastTs, placed, gameOver>>

ClusterNext ==
  \/ (\E cell \in GridCells(ROWS, COLS) : attachShotToGrid(cell[1], cell[2]))
       /\ UNCHANGED notBubble
  \/ (\E contact \in Contacts(grid, ROWS, COLS) : attachOnContact(contact))
       /\ UNCHANGED notBubble
  \/ dropFloating /\ UNCHANGED notBubble

ClusterSpec == ClusterInit /\ [][ClusterNext]_allVars

\* cells that share an edge
Adjacent(a, b) == Abs(a[1] - b[1]) + Abs(a[2] - b[2]) = 1

\* the cells of among that a chain of edge-sharing cells of among joins to
\* a cell of S
RECURSIVE Joined(_, _)
Joined(S, among) ==
  LET more == {n \in among \ S : \E v \in S : Adjacent(n, v)}
  IN IF more = {} THEN S ELSE Joined(S \cup more, among)

\* the occupied cells of g
Occupied(g) == {cell \in DOMAIN g : g[cell] # Null}

\* the occupied cells of g that no chain of occupied cells joins to row 0
Floating(g) ==
  Occupied(g) \ Joined({cell \in Occupied(g) : cell[1] = 0}, Occupied(g))

\* C18: when a placement writes a cell and that cell's same-colour group in
\* the grid just written has three cells or more, every cell of the group is
\* empty afterwards and the score grew by at least ten per cell; when the
\* group has one or two cells, the only cells emptied are the floating ones
\* (five points each), so cluster detection cleared nothing
C18_ClusterClear ==
  [][(lastOp' = "place" /\ placed' # Null) =>
       LET at == <<placed'.r, placed'.c>>
           written == [grid EXCEPT ![at] = Obj(placed'.color)]
           same == {cell \in DOMAIN grid : written[cell] = written[at]}
       IN /\ grid[at] = Null
          /\ \A group \in {Joined({at}, same)} :
               IF Cardinality(group) >= 3
                 THEN /\ \A cell \in group : grid'[cell] = Null
                      /\ score' >= score + 10 * Cardinality(group)
                      /\ score' > score
               ELSE \A floating \in {Floating(written)} :
                      /\ grid' = Cleared(written, floating)
                      /\ score' = score + 5 * Cardinality(floating)]_allVars

\* a placement completed a group of three and the three were cleared
C18_Witness ==
  /\ lastOp = "place" /\ placed # Null
  /\ grid[<<placed.r, placed.c>>] = Null
  /\ score = 30

\* C19: a floating cleanup that follows a floating cleanup, or follows a
\* placement (whose last step is a floating cleanup), changes no cell and
\* adds nothing to the score
C19_DropIdempotent ==
  [][(lastOp \in {"drop", "place"} /\ lastOp' = "drop") =>
       (grid' = grid /\ score' = score)]_allVars

\* a floating cleanup that did clear cells has run
C19_Witness ==
  /\ lastOp = "drop" /\ score >= 10
  /\ Floating(grid) = {}
  /\ \E cell \in DOMAIN grid : grid[cell] # Null

\* C24: whenever an attachment writes the shot's colour into the grid, the
\* written cell was empty just before, and no other cell gains a bubble or
\* changes colour
C24_WritesEmptyCell ==
  [][lastOp' = "place" =>
       /\ placed' # Null => grid[<<placed'.r, placed'.c>>] = Null
       /\ \A cell \in DOMAIN grid :
            (grid'[cell] # Null /\ grid'[cell] # grid[cell]) =>
               /\ placed' # Null
               /\ cell = <<placed'.r, placed'.c>>
               /\ grid'[cell] = Obj(currentBubble)]_allVars

\* an attachment wrote a bubble and the bubble stayed
C24_Witness ==
  /\ lastOp = "place" /\ placed # Null
  /\ grid[<<placed.r, placed.c>>] = Obj(placed.color)
  /\ Cardinality(Occupied(grid)) >= 2

\* C25: an attachment that finds no empty cell leaves the grid and the
\* score exactly as they were
C25_ExhaustedNoOp ==
  [][(lastOp' = "place" /\ placed' = Null) =>
       (grid' = grid /\ score' = score)]_allVars

\* C26: after an attachment no occupied cell is floating; the cells that
\* were floating once cluster detection was done are exactly the ones
\* cleared by the cleanup, and each added 5 to the score (on top of 10 for
\* each cell cluster detection cleared)
C26_GroundedAfter ==
  [][lastOp' = "place" =>
       /\ Floating(grid') = {}
       /\ placed' # Null =>
            LET at == <<placed'.r, placed'.c>>
                written == [grid EXCEPT ![at] = Obj(placed'.color)]
                same == {cell \in DOMAIN grid : written[cell] = written[at]}
            IN \A group \in {Joined({at}, same)} :
                 \A popped \in {IF Cardinality(group) >= 3 THEN group ELSE {}} :
                   \A floating \in {Floating(Cleared(written, popped))} :
                     /\ grid' = Cleared(written, popped \cup floating)
                     /\ score' = score + 10 * Cardinality(popped)
                                       + 5 * Cardinality(floating)]_allVars

\* an attachment popped a cluster and the cleanup dropped what hung on it
C26_Witness ==
  /\ lastOp = "place" /\ placed # Null
  /\ score = 35
  /\ Floating(grid) = {}

\* C38, as stated: when a shot that reached the ceiling or touched a bubble
\* is attached to an empty cell (the direct cell, one of the six neighbour
\* cells, or one the fallback scan found) and the same-colour group of that
\* cell has fewer than three cells, the cell holds the shot's colour once the
\* attachment is resolved.
C38_PlacedSurvives ==
  [][(lastOp' = "attach" /\ placed' # Null) =>
       LET at == <<placed'.r, placed'.c>>
           written == [grid EXCEPT ![at] = Obj(placed'.color)]
           same == {cell \in DOMAIN grid : written[cell] = written[at]}
       IN \A group \in {Joined({at}, same)} :
            (grid[at] = Null /\ Cardinality(group) < 3) =>
               grid'[at] = Obj(placed'.color)]_allVars

\* ---------------------------------------------------------------------
\* popClusters as a pure function of the grid: the grid is drawn from every
\* grid of up to MaxPopCells cells, and cluster detection is run once from
\* one of its bubbles (the just-placed one), with the score update that
\* attachShotToGrid makes of the number it returns.
MaxPopCells == 6

PopInit ==
  /\ COLS \in 1..MaxPopCells
  /\ ROWS \in 1..(MaxPopCells \div COLS)
  /\ grid \in Grids(ROWS, COLS)
  /\ score = 0
  /\ gameOver = FALSE
  /\ running = TRUE
  /\ rowShiftTimer = 0
  /\ lastTs = 0
  /\ shot = Null
  /\ pendingShot = FALSE
  /\ currentBubble = Null
  /\ nextBubble = Null
  /\ mouse = Null
  /\ shooterAngle = Null
  /\ placed = Null
  /\ lastOp = "create"
  /\ NoEngineButBubble

\* const popped = popClusters(rr, cc); if (popped > 0) setScore(s => s + popped * 10),
\* for the bubble at <<rr, cc>>
popPlaced(rr, cc) ==
  /\ lastOp = "create"
  /\ grid[<<rr, cc>>] # Null
  /\ lastOp' = "pop"
  /\ \E pop \in {popClusters(grid, ROWS, COLS, rr, cc)} :
       /\ grid' = pop.grid
       /\ score' = (IF pop.popped > 0 THEN score + pop.popped * 10 ELSE score)
  /\ placed' = [r |-> rr, c |-> cc, color |-> grid[<<rr, cc>>][1]]
  /\ UNCHANGED <<COLS, ROWS, mouse, shooterAngle, shot, pendingShot, currentBubble,
                 nextBubble, running, rowShiftTimer, lastTs, gameOver>>

PopNext ==
  (\E cell \in GridCells(ROWS, COLS) : popPlaced(cell[1], cell[2])) /\ UNCHANGED notBubble

PopSpec == PopInit /\ [][PopNext]_allVars

\* C37: cluster detection from the just-placed bubble clears exactly the
\* cells that a chain of edge-sharing cells of its colour joins to it when
\* they are three or more, and the score grows by 10 for each (the number
\* returned); every other cell (other colours, and cells of its colour that
\* touch the group at a corner only or not at all) is as it was; when they
\* are fewer than three the grid and the score are as they were.
C37_PopFrame ==
  [][lastOp' = "pop" =>
       LET at == <<placed'.r, placed'.c>>
           same == {cell \in DOMAIN grid : grid[cell] = grid[at]}
       IN \A group \in {Joined({at}, same)} :
            IF Cardinality(group) >= 3
              THEN /\ \A cell \in group : grid'[cell] = Null
                   /\ \A cell \in DOMAIN grid \ group : grid'[cell] = grid[cell]
                   /\ score' = score + 10 * Cardinality(group)
            ELSE grid' = grid /\ score' = score]_allVars

\* C37 witness: a group of three was cleared, and a bubble of the same
\* colour that touched it at a corner only is still there.
C37_Witness ==
  /\ lastOp = "pop" /\ score = 30
  /\ Cardinality(Occupied(grid)) >= 1
  /\ \E cell \in Occupied(grid) :
       /\ grid[cell] = Obj(placed.color)
       /\ \E n \in DOMAIN grid :
            /\ grid[n] = Null
            /\ Abs(n[1] - cell[1]) = 1 /\ Abs(n[2] - cell[2]) = 1
            /\ \A m \in DOMAIN grid : Adjacent(m, cell) => grid[m] # Obj(placed.color)

\* ---------------------------------------------------------------------
\* shiftRowsDown as a pure function of the grid: the grid is drawn from
\* every grid of up to MaxShiftRows rows and MaxShiftCols columns and one
\* shift is applied to it, for every row it can seed.
MaxShiftRows == 3
MaxShiftCols == 2

ShiftInit ==
  /\ COLS \in 1..MaxShiftCols
  /\ ROWS \in 1..MaxShiftRows
  /\ grid \in Grids(ROWS, COLS)
  /\ score = 0
  /\ gameOver = FALSE
  /\ running = TRUE
  /\ rowShiftTimer = 0
  /\ lastTs = 0
  /\ shot = Null
  /\ pendingShot = FALSE
  /\ currentBubble = Null
  /\ nextBubble = Null
  /\ mouse = Null
  /\ shooterAngle = Null
  /\ placed = Null
  /\ lastOp = "create"
  /\ NoEngineButBubble

\* shiftRowsDown() on its own, seeding newRow
shiftRows(newRow) ==
  /\ lastOp = "create"
  /\ lastOp' = "shift"
  /\ \E shift \in {shiftRowsDown(grid, ROWS, COLS, newRow)} :
       /\ grid' = shift.grid
       /\ running' = IF shift.over THEN FALSE ELSE running
       /\ gameOver' = IF shift.over THEN TRUE ELSE gameOver
  /\ UNCHANGED <<COLS, ROWS, mouse, shooterAngle, shot, pendingShot,
                 currentBubble, nextBubble, rowShiftTimer, lastTs, placed, score>>

ShiftNext ==
  (\E newRow \in [0..(COLS - 1) -> CellValues] : shiftRows(newRow))
    /\ UNCHANGED notBubble

ShiftSpec == ShiftInit /\ [][ShiftNext]_allVars

\* C27: a shift made while the bottom row is empty moves every row down by
\* one, cell for cell, seeds row 0, and does not end the game; rows 1 and
\* below then hold as many bubbles as the whole grid held
C27_RowShift ==
  [][(/\ lastOp' = "shift"
      /\ \A c \in 0..(COLS - 1) : grid[<<ROWS - 1, c>>] = Null) =>
       /\ \A cell \in DOMAIN grid :
            IF cell[1] = 0 THEN grid'[cell] \in CellValues
            ELSE grid'[cell] = grid[<<cell[1] - 1, cell[2]>>]
       /\ Cardinality({cell \in Occupied(grid') : cell[1] >= 1})
            = Cardinality(Occupied(grid))
       /\ ~gameOver' /\ running']_allVars

\* a shift moved two rows of different colours down and seeded a bubble
\* above them
C27_Witness ==
  /\ lastOp = "shift" /\ ~gameOver /\ ROWS >= 3
  /\ \E c \in 0..(COLS - 1) :
       /\ grid[<<0, c>>] # Null /\ grid[<<1, c>>] # Null
       /\ grid[<<2, c>>] # Null /\ grid[<<2, c>>] # grid[<<1, c>>]

\* ---------------------------------------------------------------------
\* The aim: the mouse position, the shooter angle updateShooter derives
\* from it, and the velocity a shot launched at that angle gets.  An angle
\* is held exactly: Atan2(dy, dx) is the angle of the vector <<dx, dy>>
\* (Math.atan2(dy, dx), in (-pi, pi]), and MinA and MaxA are the two clamp
\* values -5pi/6 and -pi/6.  The comparisons of updateShooter are
\* made on the vector: tan(pi/6) = 1/sqrt(3), so the angle of a vector
\* pointing up and right is above -pi/6 when 3 dy^2 < dx^2.

\* the width and height props (defaults)
CanvasWidth == 480
CanvasHeight == 640
\* speed of a launched shot, px per frame
ShotSpeed == 8

\* createShooter(width / 2, height - 40)
ShooterX == CanvasWidth \div 2
ShooterY == CanvasHeight - 40

\* the pointer positions explored: the canvas corners and edges, the column
\* of the shooter and its neighbours, the rows just above, at and below the
\* shooter, and the two rows on either side of the -30 and -150 degree rays
\* at the canvas edges
PointerXs == {0, 120, ShooterX - 1, ShooterX, ShooterX + 1, 360, CanvasWidth}
PointerYs == {0, 300, 461, 462, ShooterY - 10, ShooterY - 1, ShooterY,
              ShooterY + 1, CanvasHeight}

Atan2(dy, dx) == [kind |-> "atan2", dy |-> dy, dx |-> dx]
\* minA and maxA (dy and dx hold no information)
MinA == [kind |-> "minA", dy |-> 0, dx |-> 0]
MaxA == [kind |-> "maxA", dy |-> 0, dx |-> 0]

\* a > maxA, for a = Math.atan2(dy, dx)
AboveMaxA(a) ==
  \/ a.dy >= 0
  \/ a.dy < 0 /\ a.dx > 0 /\ 3 * a.dy * a.dy < a.dx * a.dx

\* a < minA, for a = Math.atan2(dy, dx)
BelowMinA(a) == a.dy < 0 /\ a.dx < 0 /\ 3 * a.dy * a.dy < a.dx * a.dx

\* mutant of ClampedAngle: only the lower clamp is applied
ClampedBelowOnly(a) == IF BelowMinA(a) THEN MinA ELSE a

\* the two clamps of updateShooter, applied to a = Math.atan2(dy, dx)
ClampedAngle(a) ==
  IF AboveMaxA(a) THEN MaxA ELSE IF BelowMinA(a) THEN MinA ELSE a

\* the square root of n with decimals: [root, scale] with
\* root = floor(sqrt(n) * scale) and root >= 10^6, found digit by digit from
\* root = floor(sqrt(n) * scale) and rest = n * scale^2 - root^2 (n >= 1)
RECURSIVE SqrtDigits(_, _, _)
SqrtDigits(root, rest, scale) ==
  CHOOSE res \in
    {IF r >= 1000000 THEN [root |-> r, scale |-> k]
     ELSE SqrtDigits(10 * r + d, 100 * m - (20 * r + d) * d, 10 * k) :
     <<r, m, k, d>> \in
       {<<root, rest, scale,
          CHOOSE d \in 0..9 :
            /\ (20 * root + d) * d <= 100 * rest
            /\ d < 9 => (20 * root + d + 1) * (d + 1) > 100 * rest>>}} : TRUE

\* (q * by + rest) * scale / by rounded to the nearest integer, by long
\* division (0 <= rest < by, scale a power of 10)
RECURSIVE Quotient(_, _, _, _)
Quotient(q, rest, by, scale) ==
  CHOOSE res \in
    {IF k = 1 THEN (IF 2 * m >= b THEN n + 1 ELSE n)
     ELSE Quotient(10 * n + (10 * m) \div b, (10 * m) % b, b, k \div 10) :
     <<n, m, b, k>> \in {<<q, rest, by, scale>>}} : TRUE

\* Math.cos(a) * speed for a = Math.atan2(other, d), and Math.sin(a) * speed
\* for a = Math.atan2(d, other): speed * d / sqrt(d^2 + other^2), in
\* 1/10000 px per frame and right to within one of them (the vector is not
\* <<0, 0>>)
Component(d, other) ==
  CHOOSE res \in
    {(IF d < 0 THEN -1 ELSE 1)
       * Quotient(x \div len.root, x % len.root, len.root, len.scale) :
     <<x, len>> \in
       {<<ShotSpeed * 10000 * Abs(d),
          SqrtDigits(Hypot(d, other),
                     d * d + other * other - Hypot(d, other) * Hypot(d, other),
                     1)>>}} : TRUE

\* Math.sin(angle) * speed, in 1/10000 px per frame
LaunchVy(a) ==
  IF a.kind \in {"minA", "maxA"} THEN -((ShotSpeed * 10000) \div 2)
  ELSE IF a.dy = 0 /\ a.dx = 0 THEN 0
  ELSE Component(a.dy, a.dx)

\* mount, with the default props; the grid and the game play no part
AimInit ==
  /\ mouse = <<CanvasWidth \div 2, CanvasHeight - 50>>
  /\ shooterAngle = Atan2(0, 1)
  /\ COLS = Null /\ ROWS = Null /\ grid = Null
  /\ score = 0
  /\ gameOver = FALSE
  /\ running = TRUE
  /\ rowShiftTimer = 0
  /\ lastTs = 0
  /\ shot = Null
  /\ pendingShot = FALSE
  /\ currentBubble = Null
  /\ nextBubble = Null
  /\ placed = Null
  /\ lastOp = "create"
  /\ NoEngineButBubble

\* onMouseMove, the pointer being at <<x, y>> of the canvas
onMouseMove(x, y) ==
  /\ lastOp' = "mouseMove"
  /\ mouse' = <<x, y>>
  /\ UNCHANGED <<COLS, ROWS, grid, shot, pendingShot, currentBubble,
                 nextBubble, shooterAngle, running, rowShiftTimer, lastTs, placed,
                 score, gameOver>>

\* updateShooter(), its aim part
updateShooter ==
  /\ lastOp' = "aim"
  /\ shooterAngle' = ClampedAngle(Atan2(mouse[2] - ShooterY, mouse[1] - ShooterX))
  /\ UNCHANGED <<COLS, ROWS, grid, shot, pendingShot, currentBubble,
                 nextBubble, mouse, running, rowShiftTimer, lastTs, placed,
                 score, gameOver>>

AimNext ==
  \/ (\E x \in PointerXs, y \in PointerYs : onMouseMove(x, y))
       /\ UNCHANGED notBubble
  \/ updateShooter /\ UNCHANGED notBubble

AimSpec == AimInit /\ [][AimNext]_allVars

\* the angle lies in [-150deg, -30deg]
InArc(a) ==
  \/ a.kind \in {"minA", "maxA"}
  \/ a.kind = "atan2" /\ a.dy < 0 /\ 3 * a.dy * a.dy >= a.dx * a.dx

\* C28: after every aim update, wherever the pointer is, the shooter angle
\* lies in the forward arc [-150deg, -30deg], and a shot launched at it
\* moves strictly upward
C28_AimClamp ==
  lastOp = "aim" => (InArc(shooterAngle) /\ LaunchVy(shooterAngle) < 0)

\* the aim was updated with the pointer below the shooter
C28_Witness ==
  /\ lastOp = "aim" /\ mouse[2] > ShooterY
  /\ shooterAngle = MaxA

(***************************************************************************)
(* Part 5: Car Escape, the CarEscapeGame component of                      *)
(* src/frontend_games_ui/src/games/racing/CarEscapeGame.jsx.  Lengths are  *)
(* held in 1/10000 px.  setRunning, setGameOver and setScore only queue    *)
(* their value: update and handleKeyDown read running and gameOver from    *)
(* the closures of the last render, which both effects re-bind when the    *)
(* values have changed (dependencies [running, gameOver] and [gameOver]).  *)
(* When React renders after a set call is not in the component: the render *)
(* is an action of its own, which a frame or a key event may precede.  A   *)
(* behaviour has one frame time (the display's refresh period); the first  *)
(* frame after mount or restart has dt = 0.                                *)
(***************************************************************************)
\* score is counted up to this cap: a frame that would count further is not
\* explored
MaxEscapeScore == 2

\* spawnIntervalRef, ms
SpawnInterval == 1000

\* the props explored: a narrow, short road
EscapeProps == [width |-> 120, height |-> 200]

\* the frame times explored, ms: a 120 Hz display and a 60 Hz one
FrameRates == {8, 17}

\* the car of the initial carRef and of restart()
NewCar(props) ==
  [x |-> Px(props.width) \div 2 - Px(20), y |-> Px(props.height - 100),
   w |-> Px(40), h |-> Px(70), speed |-> Px(6)]

\* the obstacle spawnObstacle() pushes for lane 0..3; of all the heights and
\* speeds Math.random can give, h = 30 and speed = 4 are explored
Obstacle(props, lane) ==
  LET laneWidth == Px(props.width) \div 4
      w == (laneWidth * 66) \div 100
  IN [x |-> lane * laneWidth + (laneWidth - w) \div 2,
      y |-> -Px(30), w |-> w, h |-> Px(30), speed |-> Px(4)]

\* the lanes explored: one the resting car overlaps and one it does not
Lanes == {0, 1}

\* rectsOverlap(a, b)
rectsOverlap(a, b) ==
  ~(\/ a.x + a.w < b.x
    \/ a.x > b.x + b.w
    \/ a.y + a.h < b.y
    \/ a.y > b.y + b.h)

\* the car after the steering and the two clamps of update
Steered(c, in, props) ==
  LET x1 == IF in.left THEN c.x - c.speed ELSE c.x
      x2 == IF in.right THEN x1 + c.speed ELSE x1
      x3 == IF x2 < Px(10) THEN Px(10) ELSE x2
      x4 == IF x3 + c.w > Px(props.width - 10)
              THEN Px(props.width - 10) - c.w ELSE x3
  IN [c EXCEPT !.x = x4]

\* ob.y += ob.speed * (dt / 16.6667), rounded to 1/10000 px
MovedDown(ob, dt) ==
  [ob EXCEPT !.y = ob.y + RoundDiv((ob.speed \div 10) * dt * 1000, 16667) * 10]

\* the obstacles moved, then filtered to those with y < height + 50
RECURSIVE MovedOnScreen(_, _, _)
MovedOnScreen(obs, dt, props) ==
  IF obs = <<>> THEN <<>>
  ELSE LET ob == MovedDown(Head(obs), dt)
           rest == MovedOnScreen(Tail(obs), dt, props)
       IN IF ob.y < Px(props.height + 50) THEN <<ob>> \o rest ELSE rest

\* what update(dt) adds to the score: Math.floor(dt / 10)
Gain(dt) == dt \div 10

\* the variables of the other engines
notEscape ==
  <<cols, rows, initialLength, startDir, snake, dir, pendingDir, food, ticks,
    racerState, COLS, ROWS, grid, shot, pendingShot, currentBubble,
    nextBubble, mouse, shooterAngle, rowShiftTimer, lastTs, placed, foodLoop,
    flightState>>

\* mount
EscapeInit ==
  /\ road = EscapeProps
  /\ frameMs \in FrameRates
  /\ running = TRUE
  /\ score = 0
  /\ gameOver = FALSE
  /\ car = NewCar(EscapeProps)
  /\ obstacles = <<>>
  /\ spawnTimer = 0
  /\ steer = [left |-> FALSE, right |-> FALSE]
  /\ lastTime = 0
  /\ bound = [running |-> TRUE, gameOver |-> FALSE]
  /\ lastOp = "create"
  /\ cols = Null /\ rows = Null /\ initialLength = Null /\ startDir = Null
  /\ snake = Null /\ dir = Null /\ pendingDir = Null /\ food = Null
  /\ ticks = Null
  /\ NoRacer /\ NoFoodLoop /\ NoFlight
  /\ COLS = Null /\ ROWS = Null /\ grid = Null /\ shot = Null
  /\ pendingShot = Null /\ currentBubble = Null /\ nextBubble = Null
  /\ mouse = Null /\ shooterAngle = Null /\ rowShiftTimer = Null /\ lastTs = Null
  /\ placed = Null

\* restart()
restart ==
  /\ lastOp' = "restart"
  /\ running' = TRUE
  /\ gameOver' = FALSE
  /\ score' = 0
  /\ car' = NewCar(road)
  /\ obstacles' = <<>>
  /\ spawnTimer' = 0
  /\ lastTime' = 0
  /\ UNCHANGED <<road, frameMs, steer, bound>>

\* handleKeyDown(e), e.key being key
handleKeyDown(key) ==
  IF ToLowerCase(key) = "r" /\ bound.gameOver THEN restart
  ELSE /\ lastOp' = "keydown"
       /\ steer' = [left |-> steer.left \/ key = "ArrowLeft",
                    right |-> steer.right \/ key = "ArrowRight"]
       /\ UNCHANGED <<road, frameMs, car, obstacles, spawnTimer, lastTime,
                      bound, running, score, gameOver>>

\* handleKeyUp(e), e.key being key
handleKeyUp(key) ==
  /\ lastOp' = "keyup"
  /\ steer' = [left |-> steer.left /\ key # "ArrowLeft",
               right |-> steer.right /\ key # "ArrowRight"]
  /\ UNCHANGED <<road, frameMs, car, obstacles, spawnTimer, lastTime,
                 bound, running, score, gameOver>>

\* the Start button (drawn disabled while running and not over)
EscapeStart ==
  /\ ~(~bound.gameOver /\ bound.running)
  /\ lastOp' = "start"
  /\ running' = TRUE
  /\ UNCHANGED <<road, frameMs, car, obstacles, spawnTimer, steer, lastTime,
                 bound, score, gameOver>>

\* the Pause button (drawn disabled while not running)
EscapePause ==
  /\ bound.running
  /\ lastOp' = "pause"
  /\ running' = FALSE
  /\ UNCHANGED <<road, frameMs, car, obstacles, spawnTimer, steer, lastTime,
                 bound, score, gameOver>>

\* React renders the component with the values set since the last render,
\* and the effects bind the loop and the key listener of that render
EscapeRender ==
  /\ bound # [running |-> running, gameOver |-> gameOver]
  /\ lastOp' = "render"
  /\ bound' = [running |-> running, gameOver |-> gameOver]
  /\ UNCHANGED <<road, frameMs, car, obstacles, spawnTimer, steer, lastTime,
                 running, score, gameOver>>

\* one animation frame: loop(ts) calling update(dt)
EscapeFrame ==
  \E dt \in {IF lastTime = 0 THEN 0 ELSE frameMs} :
    /\ lastOp' = "frame"
    /\ lastTime' = 1
    /\ UNCHANGED <<road, frameMs, steer, bound>>
    /\ IF ~bound.running
         THEN UNCHANGED <<car, obstacles, spawnTimer, running, score, gameOver>>
       ELSE
         /\ score + Gain(dt) <= MaxEscapeScore
         /\ car' = Steered(car, steer, road)
         /\ spawnTimer' = IF spawnTimer + dt >= SpawnInterval THEN 0
                          ELSE spawnTimer + dt
         /\ \E spawned \in (IF spawnTimer + dt >= SpawnInterval
                               THEN {<<Obstacle(road, lane)>> : lane \in Lanes}
                             ELSE {<<>>}) :
              obstacles' = MovedOnScreen(obstacles \o spawned, dt, road)
         /\ \E hit \in {\E i \in 1..Len(obstacles') :
                           rectsOverlap(car', obstacles'[i])} :
              /\ running' = IF hit THEN FALSE ELSE running
              /\ gameOver' = IF hit THEN TRUE ELSE gameOver
         /\ score' = score + Gain(dt)

EscapeKeys == {"ArrowLeft", "ArrowRight", "r", "R"}

EscapeNext ==
  \/ EscapeFrame /\ UNCHANGED notEscape
  \/ (\E key \in EscapeKeys : handleKeyDown(key)) /\ UNCHANGED notEscape
  \/ (\E key \in EscapeKeys : handleKeyUp(key)) /\ UNCHANGED notEscape
  \/ EscapeStart /\ UNCHANGED notEscape
  \/ EscapePause /\ UNCHANGED notEscape
  \/ restart /\ UNCHANGED notEscape
  \/ EscapeRender /\ UNCHANGED notEscape

\* requestAnimationFrame(loop) is called at the end of every frame and by
\* the loop effect, so the frames never stop coming; a render React has been
\* asked for is made
EscapeSpec ==
  EscapeInit /\ [][EscapeNext]_allVars
    /\ WF_allVars(EscapeFrame /\ UNCHANGED notEscape)
    /\ WF_allVars(EscapeRender /\ UNCHANGED notEscape)

\* C29: the score never decreases except on restart, and while the game is
\* running (not paused, not crashed) it eventually rises as the frames go
\* by, whatever the frame time
C29_ScoreRises ==
  /\ [][score' >= score \/ lastOp' = "restart"]_allVars
  /\ \A n \in 0..(MaxEscapeScore - 1) :
       (running /\ ~gameOver /\ score = n /\ lastTime # 0)
         ~> (score > n \/ ~running \/ lastOp = "restart")

(***************************************************************************)
(* Part 6: placeFood of the snake engines as a loop, one sample per step:  *)
(* src/unnamed/part_004 lines 98-107 (the canonical engine, which gives up *)
(* after 2000 retries) and                                                 *)
(* src/frontend_games_ui/src/games/snake/snakeEngine.js lines 52-62 (1000  *)
(* retries).  The call modelled is the one that ends construction, on the  *)
(* snake the engine has built; both Math.random results of a sample are a  *)
(* nondeterministic choice of the cell.                                    *)
(***************************************************************************)
\* tries > 2000 and tries > 1000
RetryLimit == 2000
WallRetryLimit == 1000

Engines == {"canonical", "wall"}

\* the number the engine compares tries with
Retries(e) == IF e = "canonical" THEN RetryLimit ELSE WallRetryLimit

\* the variables of the other engines, and the snake variables placeFood
\* neither reads nor writes
notFoodLoop ==
  <<initialLength, startDir, dir, pendingDir, score, ticks, gameOver,
    racerState, bubbleState, escapeState, flightState>>

\* createSnakeEngine up to its placeFood() call, and the entry of placeFood
FoodInit ==
  /\ engine \in Engines
  /\ cols \in 1..MaxCols
  /\ rows \in 1..MaxRows
  /\ initialLength \in (IF engine = "canonical" THEN InitialLengths ELSE {Null})
  /\ startDir = (IF engine = "canonical" THEN Vec(1, 0) ELSE Null)
  /\ snake = (IF engine = "canonical"
                THEN buildInitialSnake(cols, rows, startDir, EffectiveLength(initialLength))
              ELSE WallInitialSnake(cols, rows))
  /\ dir = Vec(1, 0)
  /\ pendingDir = Null
  /\ food = Null
  /\ score = 0
  /\ ticks = 0
  /\ gameOver = FALSE
  /\ tries = 0
  /\ foodPc = "loop"
  /\ lastOp = "create"
  /\ NoRacer /\ NoBubble /\ NoEscape /\ NoFlight

\* mutant of sample: the retry limit is tested only on a free cell
sampleWithoutBreak(cell) ==
  /\ foodPc = "loop"
  /\ tries < Retries(engine) + 2
  /\ lastOp' = "sample"
  /\ tries' = tries + 1
  /\ IF ~OnSnake(snake, cell)
       THEN foodPc' = "done" /\ food' = cell
     ELSE foodPc' = "loop" /\ food' = food
  /\ UNCHANGED <<engine, cols, rows, snake>>

\* one pass of the do-while body and its condition, and state.food = { x, y }
\* when the loop is left
sample(cell) ==
  /\ foodPc = "loop"
  /\ lastOp' = "sample"
  /\ tries' = tries + 1
  /\ IF tries' > Retries(engine) \/ ~OnSnake(snake, cell)
       THEN foodPc' = "done" /\ food' = cell
     ELSE foodPc' = "loop" /\ food' = food
  /\ UNCHANGED <<engine, cols, rows, snake>>

FoodSample == \E cell \in Cells(cols, rows) : sample(cell)

FoodNext == FoodSample /\ UNCHANGED notFoodLoop

FoodSpec == FoodInit /\ [][FoodNext]_allVars /\ WF_allVars(FoodNext)

\* C34: placeFood terminates after a bounded number of samples: tries never
\* exceeds 2001 in the canonical engine and 1001 in the other, the sample
\* that reaches that number leaves the loop, and a call that has begun
\* returns (with the food set), also on a grid the snake fills.
C34_PlaceFoodTerminates ==
  /\ [](engine = "canonical" => tries <= 2001)
  /\ [](engine = "wall" => tries <= 1001)
  /\ (foodPc = "loop") ~> (foodPc = "done" /\ food # Null)

\* C34 witness: on a grid the snake fills, the canonical engine's placeFood
\* has returned after its 2001st sample.
C34_Witness ==
  /\ engine = "canonical" /\ foodPc = "done" /\ tries = 2001
  /\ \A cell \in Cells(cols, rows) : \E i \in 1..Len(snake) : snake[i] = cell
  /\ cols * rows >= 2

(***************************************************************************)
(* Part 7: the flight of the bubble shooter's projectile, updateShooter    *)
(* and updateShot of src/unnamed/part_005 with the geometry they compute,  *)
(* on a 96 x 288 canvas (3 columns, 4 rows), from a moment of the game     *)
(* with no shot in flight.  Positions and velocities are held in 1/100 px  *)
(* (per frame).  A frame runs the update registered at mount (LoopRunning, *)
(* LoopGameOver).  Its frame time is 0 or a whole shift interval, so the   *)
(* row-shift timer is 0 between frames and a row shift can fall on any     *)
(* frame of a flight.                                                      *)
(***************************************************************************)
\* the clicks and the row shifts of a behaviour are counted up to these caps
MaxShots == 1
MaxShifts == 1

CELL_RADIUS == 16
CELL_DIAM == CELL_RADIUS * 2
CEILING_Y == 80

\* n px as a position
Cpx(n) == n * 100

\* the width and height props of the component
FlightWidth == 96
FlightHeight == 288

\* COLS and ROWS of that canvas
FlightCols == FlightWidth \div CELL_DIAM
FlightRows == (FlightHeight - 160) \div CELL_DIAM

\* createShooter(width / 2, height - 40)
FlightShooterX == FlightWidth \div 2
FlightShooterY == FlightHeight - 40

\* the pointer positions explored, besides the one at mount (straight above
\* the shooter): up to the right of the shooter, low to its left (the angle
\* is clamped to minA) and below it to the right (clamped to maxA)
FlightPointers ==
  {<<FlightShooterX + 30, 100>>, <<0, FlightShooterY - 10>>,
   <<FlightWidth, FlightShooterY + 1>>}

\* the frame times explored, ms
FlightFrameTimes == {0, SHIFT_INTERVAL}

\* the grids a flight starts over: seedTopRows leaving every cell empty, and
\* filling the top two rows only, with the two colours in a checkerboard
FlightGrids ==
  {createGrid(FlightRows, FlightCols),
   [cell \in GridCells(FlightRows, FlightCols) |->
      IF cell[1] >= 2 THEN Null
      ELSE IF (cell[1] + cell[2]) % 2 = 0 THEN Obj("#2563EB") ELSE Obj("#F59E0B")]}

\* the row a row shift seeds at the top that is explored: a full row of one
\* colour
FlightNewRows == {[c \in 0..(FlightCols - 1) |-> Obj("#2563EB")]}

\* Math.cos(angle) * speed, in 1/10000 px per frame
LaunchVx(a) ==
  IF a.kind = "maxA" THEN 69282
  ELSE IF a.kind = "minA" THEN -69282
  ELSE IF a.dy = 0 /\ a.dx = 0 THEN ShotSpeed * 10000
  ELSE Component(a.dx, a.dy)

\* vx and vy of a shot launched at angle a
ShotVelocity(a) == Vec(RoundDiv(LaunchVx(a), 100), RoundDiv(LaunchVy(a), 100))

\* cellToWorld(c, r)
cellToWorld(c, r) ==
  Vec(Cpx(c * CELL_DIAM + CELL_RADIUS), Cpx(CEILING_Y + r * CELL_DIAM + CELL_RADIUS))

Clamp(lo, v, hi) == IF v < lo THEN lo ELSE IF v > hi THEN hi ELSE v

\* worldToCell(wx, wy), as <<r, c>>
worldToCell(wx, wy, R, C) ==
  <<Clamp(0, (wy - Cpx(CEILING_Y)) \div Cpx(CELL_DIAM), R - 1),
    Clamp(0, wx \div Cpx(CELL_DIAM), C - 1)>>

\* dx * dx + dy * dy
Dist2(a, b) == (a.x - b.x) * (a.x - b.x) + (a.y - b.y) * (a.y - b.y)

\* the six offsets neighborEmptyCellNear tries, in its order, as <<dr, dc>>
NearDirs == <<<<-1, 0>>, <<0, 1>>, <<1, 0>>, <<0, -1>>, <<-1, 1>>, <<1, -1>>>>

\* neighborEmptyCellNear(c, r, wx, wy), as <<r, c>>: the empty cell among the
\* six that is nearest <<wx, wy>> (the first of them in the order tried), or
\* <<r, c>> itself when none is empty
NearestEmptyNeighbor(g, R, C, c, r, wx, wy) ==
  LET at(i) == <<r + NearDirs[i][1], c + NearDirs[i][2]>>
      ok == {i \in 1..6 : at(i) \in GridCells(R, C) /\ g[at(i)] = Null}
      d2(i) == Dist2(cellToWorld(at(i)[2], at(i)[1]), Vec(wx, wy))
      best == {i \in ok : \A j \in ok : d2(i) < d2(j) \/ (d2(i) = d2(j) /\ i <= j)}
  IN IF ok = {} THEN <<r, c>> ELSE at(Only(best))

\* the shot touches the bubble of cell <<r, c>>: dist2 <= minDist * minDist
Touches(p, cell) ==
  /\ Abs(p.x - cellToWorld(cell[2], cell[1]).x) <= Cpx(CELL_DIAM - 2)
  /\ Abs(p.y - cellToWorld(cell[2], cell[1]).y) <= Cpx(CELL_DIAM - 2)
  /\ Dist2(p, cellToWorld(cell[2], cell[1])) <= Cpx(CELL_DIAM - 2) * Cpx(CELL_DIAM - 2)

\* the first bubble the collision loop of updateShot finds the shot touching
\* (rows from the top, columns from the left), as a set
FirstTouched(p, g, R, C) ==
  Only({{cell \in hits :
           \A o \in hits : cell[1] < o[1] \/ (cell[1] = o[1] /\ cell[2] <= o[2])} :
        hits \in {{cell \in GridCells(R, C) : g[cell] # Null /\ Touches(p, cell)}}})

\* mutant of Bounced: a wall turns the shot back the way it came
BouncedBack(p, v) ==
  IF p.x <= Cpx(CELL_RADIUS) \/ p.x >= Cpx(FlightWidth - CELL_RADIUS)
    THEN [pos |-> Vec(Clamp(Cpx(CELL_RADIUS), p.x, Cpx(FlightWidth - CELL_RADIUS)), p.y),
          vel |-> Vec(-v.x, -v.y)]
  ELSE [pos |-> p, vel |-> v]

\* bounce off walls
Bounced(p, v) ==
  IF p.x <= Cpx(CELL_RADIUS) \/ p.x >= Cpx(FlightWidth - CELL_RADIUS)
    THEN [pos |-> Vec(Clamp(Cpx(CELL_RADIUS), p.x, Cpx(FlightWidth - CELL_RADIUS)), p.y),
          vel |-> Vec(-v.x, v.y)]
  ELSE [pos |-> p, vel |-> v]

\* the preferred cell attachShotToGrid computes for a shot at p: around is
\* Null (the ceiling was reached) or Obj(<<r, c>>), the bubble touched
PreferredCell(g, R, C, p, around) ==
  IF around # Null
    THEN NearestEmptyNeighbor(g, R, C, around[1][2], around[1][1], p.x, p.y)
  ELSE LET cell == worldToCell(p.x, p.y, R, C)
       IN IF g[cell] # Null
            THEN NearestEmptyNeighbor(g, R, C, cell[2], cell[1], p.x, p.y)
          ELSE cell

\* updateShot() for a shot of the given colour at p with velocity v over grid
\* g: how the frame leaves it ("fly", "ceiling", "contact" or "bottom"),
\* whether it bounced off a wall, and the grid and score gain of an attachment
Flown(color, p, v, g, R, C) ==
  Only({LET attached(kind, around) ==
              Only({[kind |-> kind, pos |-> b.pos, vel |-> b.vel, grid |-> a.grid,
                     gain |-> a.gain, placed |-> a.placed, bounced |-> b.vel # v] :
                    a \in {PlaceAndClear(g, R, C, color, cell[1], cell[2]) :
                             cell \in {PreferredCell(g, R, C, b.pos, around)}}})
            flying(kind) ==
              [kind |-> kind, pos |-> b.pos, vel |-> b.vel, grid |-> g, gain |-> 0,
               placed |-> Null, bounced |-> b.vel # v]
        IN IF b.pos.y <= Cpx(CEILING_Y + CELL_RADIUS) THEN attached("ceiling", Null)
           ELSE Only({IF touched # {} THEN attached("contact", Obj(Only(touched)))
                      ELSE IF b.pos.y >= Cpx(FlightHeight - 4) THEN flying("bottom")
                      ELSE flying("fly") :
                      touched \in {FirstTouched(b.pos, g, R, C)}}) :
        b \in {Bounced(Vec(p.x + v.x, p.y + v.y), v)}})

\* the variables of the other engines, and ticks and placed
notFlight ==
  <<cols, rows, initialLength, startDir, snake, dir, pendingDir, food, ticks,
    racerState, escapeState, foodLoop>>

\* mount, with the default props
FlightInit ==
  /\ COLS = FlightCols
  /\ ROWS = FlightRows
  /\ grid \in FlightGrids
  /\ score = 0
  /\ gameOver = FALSE
  /\ running = TRUE
  /\ rowShiftTimer = 0
  /\ lastTs = 0
  /\ shot = Null
  /\ shotPos = Null
  /\ shotVel = Null
  /\ pendingShot = FALSE
  /\ currentBubble \in COLORS
  /\ nextBubble = "#F59E0B"
  /\ mouse = <<FlightWidth \div 2, FlightHeight - 50>>
  /\ shooterAngle = Atan2(0, 1)
  /\ placed = Null
  /\ shotsFired = 0
  /\ shifts = 0
  /\ bounces = 0
  /\ lastOp = "create"
  /\ cols = Null /\ rows = Null /\ initialLength = Null /\ startDir = Null
  /\ snake = Null /\ dir = Null /\ pendingDir = Null /\ food = Null
  /\ ticks = Null
  /\ NoRacer /\ NoEscape /\ NoFoodLoop

\* onMouseMove, the pointer being at <<x, y>> of the canvas
FlightMouseMove(x, y) ==
  /\ lastOp' = "mouseMove"
  /\ mouse' = <<x, y>>
  /\ UNCHANGED <<COLS, ROWS, grid, shot, shotPos, shotVel, pendingShot, currentBubble,
                 nextBubble, shooterAngle, running, rowShiftTimer, lastTs, placed,
                 score, gameOver, shotsFired, shifts, bounces>>

\* onClick
FlightClick ==
  /\ ~pendingShot
  /\ shotsFired < MaxShots
  /\ lastOp' = "onClick"
  /\ pendingShot' = TRUE
  /\ shotsFired' = shotsFired + 1
  /\ UNCHANGED <<COLS, ROWS, grid, shot, shotPos, shotVel, currentBubble,
                 nextBubble, mouse, shooterAngle, running, rowShiftTimer, lastTs, placed,
                 score, gameOver, shifts, bounces>>

\* one animation frame: loop(ts) calling update(dt), whose row shift (when
\* due) seeds newRow; lastOp records how updateShot left the shot
FlightFrame(dt, newRow) ==
  /\ rowShiftTimer + dt >= SHIFT_INTERVAL => shifts < MaxShifts
  /\ lastTs' = 1
  /\ UNCHANGED <<COLS, ROWS, mouse>>
  /\ IF ~LoopRunning \/ LoopGameOver
       THEN /\ lastOp' = "update"
            /\ UNCHANGED <<grid, shot, shotPos, shotVel, pendingShot, currentBubble,
                           nextBubble, shooterAngle, running, rowShiftTimer,
                           placed, score, gameOver, shotsFired, shifts, bounces>>
     ELSE
       \E due \in {rowShiftTimer + dt >= SHIFT_INTERVAL} :
       \E shift \in {IF due THEN shiftRowsDown(grid, ROWS, COLS, newRow)
                     ELSE [grid |-> grid, over |-> FALSE]} :
       \E aim \in {ClampedAngle(Atan2(mouse[2] - FlightShooterY, mouse[1] - FlightShooterX))} :
       \E launch \in {pendingShot /\ shot = Null /\ LoopRunning /\ ~LoopGameOver} :
         /\ rowShiftTimer' = (IF due THEN 0 ELSE rowShiftTimer + dt)
         /\ shifts' = (IF due THEN shifts + 1 ELSE shifts)
         /\ running' = (IF shift.over THEN FALSE ELSE running)
         /\ gameOver' = (IF shift.over THEN TRUE ELSE gameOver)
         /\ shooterAngle' = aim
         /\ pendingShot' = (IF launch THEN FALSE ELSE pendingShot)
         /\ UNCHANGED shotsFired
         /\ IF ~launch /\ shot = Null
              THEN /\ lastOp' = "update"
                   /\ grid' = shift.grid
                   /\ UNCHANGED <<shot, shotPos, shotVel, currentBubble, nextBubble,
                                  placed, score, bounces>>
            ELSE
              \E s \in {IF launch
                          THEN [color |-> currentBubble,
                                pos |-> Vec(Cpx(FlightShooterX), Cpx(FlightShooterY)),
                                vel |-> ShotVelocity(aim)]
                        ELSE [color |-> shot[1], pos |-> shotPos, vel |-> shotVel]} :
              \E f \in {Flown(s.color, s.pos, s.vel, shift.grid, ROWS, COLS)} :
                /\ lastOp' = f.kind
                /\ grid' = f.grid
                /\ score' = score + f.gain
                /\ bounces' = (IF launch THEN 0 ELSE bounces) + (IF f.bounced THEN 1 ELSE 0)
                /\ IF f.kind = "fly"
                     THEN /\ shot' = Obj(s.color)
                          /\ shotPos' = f.pos
                          /\ shotVel' = f.vel
                          /\ UNCHANGED <<currentBubble, nextBubble, placed>>
                   ELSE IF f.kind = "bottom"
                     THEN /\ shot' = Null /\ shotPos' = Null /\ shotVel' = Null
                          /\ UNCHANGED <<currentBubble, nextBubble, placed>>
                   ELSE /\ shot' = Null /\ shotPos' = Null /\ shotVel' = Null
                        /\ placed' = f.placed
                        /\ currentBubble' = nextBubble
                        /\ nextBubble' \in COLORS

\* a frame, for each frame time and each row its shift can seed
FlightUpdate ==
  \E dt \in FrameDt(lastTs, FlightFrameTimes) :
    \E newRow \in (IF rowShiftTimer + dt >= SHIFT_INTERVAL THEN FlightNewRows
                    ELSE {[c \in 0..(FlightCols - 1) |-> Null]}) :
      FlightFrame(dt, newRow)

FlightNext ==
  \/ (\E p \in FlightPointers : FlightMouseMove(p[1], p[2])) /\ UNCHANGED notFlight
  \/ FlightClick /\ UNCHANGED notFlight
  \/ FlightUpdate /\ UNCHANGED notFlight

FlightSpec ==
  FlightInit /\ [][FlightNext]_allVars /\ WF_allVars(FlightUpdate /\ UNCHANGED notFlight)

\* C39: a shot in flight is resolved after finitely many updates (the shot
\* becomes null again), every update that leaves it in flight has moved it
\* up, and it is never resolved by leaving through the bottom: only by
\* reaching the ceiling or touching a bubble.
C39_ShotResolves ==
  /\ (shot # Null) ~> (shot = Null /\ lastOp \in {"ceiling", "contact"})
  /\ [][(shot # Null /\ lastOp' = "fly") => shotPos'.y < shotPos.y]_allVars
  /\ [](lastOp # "bottom")

\* C39 witness: a shot that bounced off both side walls has touched a
\* seeded bubble and been attached below the seeded rows.
C39_Witness ==
  /\ lastOp = "contact" /\ shot = Null /\ shotsFired = 1
  /\ bounces >= 2 /\ shifts = 0
  /\ placed # Null /\ placed.r = 2

====
